---- MODULE Spec2Model ----
(***************************************************************************)
(* Prefab template loader (AzToolsFramework::Prefab::PrefabLoader).        *)
(*                                                                         *)
(* The loader turns prefab files into Templates held by the prefab system  *)
(* component, resolves the nested instances of each file recursively,      *)
(* connects source and target Templates with Links and rejects files that  *)
(* depend on themselves.  The recursion of LoadTemplateFromString /        *)
(* LoadNestedInstance is modelled with an explicit call stack: one frame   *)
(* per Template whose instances are being processed.                       *)
(***************************************************************************)
EXTENDS Integers, Sequences, FiniteSets, TLC

\* Bounds of the model.
MaxInstances == 2   \* nested instances over all the prefab files on disk
MaxFaults == 1      \* failures of the external collaborators in one behaviour
MaxPathLength == 3  \* characters of a path handed to IsValidPrefabPath on its own
MaxSiblings == 3    \* nested instances of the one document loaded on its own

----------------------------------------------------------------------------
(* Paths are sequences of one-character strings.                           *)

ProjectPath == <<"/", "p">>

InvalidCharacters == {"*", "?", "<", ">", "|", ":"}

InvalidTemplateId == 0

Last(s) == s[Len(s)]

IsValidPrefabPath_NoSeparatorCheck(path) ==
    /\ path # <<>>
    /\ \A i \in 1..Len(path) : path[i] \notin InvalidCharacters

IsValidPrefabPath_NoCharacterCheck(path) ==
    /\ path # <<>>
    /\ Last(path) # "\\" /\ Last(path) # "/"

IsValidPrefabPath(path) ==
    /\ path # <<>>
    /\ \A i \in 1..Len(path) : path[i] \notin InvalidCharacters
    /\ Last(path) # "\\" /\ Last(path) # "/"

IsAbsolute(path) == path # <<>> /\ path[1] = "/"

FirstSeparator(path) ==
    IF \E i \in 1..Len(path) : path[i] = "/"
    THEN CHOOSE i \in 1..Len(path) :
             path[i] = "/" /\ \A j \in 1..(i - 1) : path[j] # "/"
    ELSE Len(path) + 1

RECURSIVE Components(_)
Components(path) ==
    IF path = <<>> THEN <<>>
    ELSE IF Head(path) = "/" THEN Components(Tail(path))
    ELSE LET n == FirstSeparator(path)
         IN  <<SubSeq(path, 1, n - 1)>> \o Components(SubSeq(path, n, Len(path)))

RECURSIVE Join(_)
Join(components) ==
    IF components = <<>> THEN <<>>
    ELSE IF Len(components) = 1 THEN components[1]
    ELSE components[1] \o <<"/">> \o Join(Tail(components))

CommonPrefixLength(s, t) ==
    LET m == IF Len(s) < Len(t) THEN Len(s) ELSE Len(t)
        agree == {k \in 0..m : \A i \in 1..k : s[i] = t[i]}
    IN  CHOOSE k \in agree : \A j \in agree : j <= k

LexicallyRelative(path, base) ==
    IF IsAbsolute(path) # IsAbsolute(base) THEN <<>>
    ELSE LET cp == Components(path)
             cb == Components(base)
             k == CommonPrefixLength(cp, cb)
             ups == [i \in 1..(Len(cb) - k) |-> <<".", ".">>]
             rest == ups \o SubSeq(cp, k + 1, Len(cp))
         IN  IF rest = <<>> THEN <<".">> ELSE Join(rest)

PathAppend(base, path) == IF IsAbsolute(path) THEN path ELSE base \o <<"/">> \o path

\* The answers the asset system can give for a path: none (asset processor
\* not available), or the path relative to its root folder.
AssetSystemLookups(path) ==
    { [pathFound |-> FALSE, rootFolder |-> <<>>, relativePath |-> <<>>],
      [pathFound |-> TRUE, rootFolder |-> ProjectPath,
       relativePath |-> IF IsAbsolute(path)
                        THEN LexicallyRelative(path, ProjectPath) ELSE path] }

GetFullPath_AlwaysLooksUp(path, lookup) ==
    IF lookup.pathFound THEN PathAppend(lookup.rootFolder, lookup.relativePath)
    ELSE IF IsAbsolute(path) THEN path
    ELSE PathAppend(ProjectPath, path)

GetFullPath(path, lookup) ==
    IF IsAbsolute(path) THEN path
    ELSE IF lookup.pathFound THEN PathAppend(lookup.rootFolder, lookup.relativePath)
    ELSE PathAppend(ProjectPath, path)

GenerateRelativePath_AcceptsEmptyAnswer(path, lookup) ==
    IF lookup.pathFound THEN lookup.relativePath
    ELSE IF IsAbsolute(path) THEN LexicallyRelative(path, ProjectPath)
    ELSE path

GenerateRelativePath(path, lookup) ==
    IF lookup.pathFound /\ lookup.relativePath # <<>> THEN lookup.relativePath
    ELSE IF IsAbsolute(path) THEN LexicallyRelative(path, ProjectPath)
    ELSE path

----------------------------------------------------------------------------
(* Prefab DOMs and the files that hold them.                               *)

\* The spellings of prefab paths used by the files and by the callers.
RelA == <<"a">>
RelB == <<"b">>
RelC == <<"c">>
AbsA == PathAppend(ProjectPath, RelA)
AbsB == PathAppend(ProjectPath, RelB)
AbsC == PathAppend(ProjectPath, RelC)
EmptyPath == <<>>
TrailingSeparatorPath == <<"b", "/">>

FileNames == {AbsA, AbsB}
InvalidPaths == {EmptyPath, TrailingSeparatorPath}

NoSource == <<>>

StringValue(s) == [isString |-> TRUE, value |-> s]
NotAString == [isString |-> FALSE, value |-> <<>>]

\* What an entry of "Instances" can be: (is its name a valid path, its "Source").
InstanceKinds ==
    { [validName |-> TRUE, Source |-> StringValue(RelA)],
      [validName |-> TRUE, Source |-> StringValue(RelC)],
      [validName |-> TRUE, Source |-> StringValue(RelB)],
      [validName |-> TRUE, Source |-> StringValue(AbsB)],
      [validName |-> TRUE, Source |-> StringValue(<<>>)] }

Digit(k) == IF k = 1 THEN "1" ELSE IF k = 2 THEN "2" ELSE IF k = 3 THEN "3" ELSE "4"

\* Member names are unique within one "Instances" object.
InstanceName(k, validName) == IF validName THEN <<"i", Digit(k)>> ELSE <<Digit(k), "/">>

InstanceLists ==
    UNION { { [k \in 1..n |-> [name |-> InstanceName(k, kinds[k].validName),
                               Source |-> kinds[k].Source]] :
              kinds \in [1..n -> InstanceKinds] } : n \in 0..MaxInstances }

PrefabDoms ==
    [Source : {NoSource}, ContainerEntity : {"absent", "malformed"}, Instances : InstanceLists]

WellFormedDoms == {dom \in PrefabDoms : dom.ContainerEntity # "malformed"}

UnparsableContent == [parsable |-> FALSE, dom |-> [Source |-> NoSource,
                      ContainerEntity |-> "absent", Instances |-> <<>>]]

\* What the prefab files can hold: a is well formed, b may hold malformed data.
FileContents(f) == [parsable : {TRUE}, dom : IF f = AbsA THEN WellFormedDoms ELSE PrefabDoms]

ContentsWithInstances(f, n) == {content \in FileContents(f) : Len(content.dom.Instances) = n}

\* Two prefab files with any content and MaxInstances instances at most between
\* them, and a third file that is not a prefab.
FileSystems ==
    UNION { { [f \in FileNames \cup {AbsC} |->
                  IF f = AbsC THEN UnparsableContent ELSE IF f = AbsA THEN a ELSE b] :
              a \in ContentsWithInstances(AbsA, count[1]),
              b \in ContentsWithInstances(AbsB, count[2]) } :
            count \in {c \in (0..MaxInstances) \X (0..MaxInstances) :
                          c[1] + c[2] <= MaxInstances} }

ReadJsonFromString(content) == [ok |-> content.parsable, dom |-> content.dom]

InvalidLinkId == 0

\* The flags of StoreInstanceInPrefabDom.
StoreLinkIds == "StoreLinkIds"
StripDefaultValues == "StripDefaultValues"

\* The "LinkId" member of a nested instance value, if it has one.
LinkIdOf(instance) == IF "LinkId" \in DOMAIN instance THEN instance.LinkId ELSE InvalidLinkId

WithLinkId(instance, linkId) ==
    [member \in DOMAIN instance \cup {"LinkId"} |->
        IF member = "LinkId" THEN linkId ELSE instance[member]]

WithoutLinkId(instance) == [member \in DOMAIN instance \ {"LinkId"} |-> instance[member]]

\* Instantiating a DOM fails on malformed data and fills in default values.
LoadInstanceFromPrefabDom(dom) ==
    [ok |-> dom.ContainerEntity # "malformed",
     instance |-> [Source |-> dom.Source,
                   ContainerEntity |-> IF dom.ContainerEntity = "absent"
                                       THEN "default" ELSE dom.ContainerEntity,
                   Instances |-> [k \in 1..Len(dom.Instances) |->
                                     WithLinkId(dom.Instances[k], LinkIdOf(dom.Instances[k]))]]]

\* Serializing an instance fails on data that cannot be stored; what it has
\* written by then is in dom.
StoreInstanceInPrefabDom(instance, flags) ==
    [ok |-> instance.ContainerEntity # "unstorable",
     dom |-> [Source |-> instance.Source,
              ContainerEntity |-> IF StripDefaultValues \in flags
                                      /\ instance.ContainerEntity = "default"
                                  THEN "absent" ELSE instance.ContainerEntity,
              Instances |-> [k \in 1..Len(instance.Instances) |->
                                IF StoreLinkIds \in flags THEN instance.Instances[k]
                                ELSE WithoutLinkId(instance.Instances[k])]]]

SanitizeLoadedTemplate_PartialOnFailure(dom) ==
    LET loaded == LoadInstanceFromPrefabDom(dom)
        stored == StoreInstanceInPrefabDom(loaded.instance, {StoreLinkIds})
    IN  IF ~loaded.ok THEN [ok |-> FALSE, dom |-> dom]
        ELSE [ok |-> stored.ok, dom |-> stored.dom]

SanitizeLoadedTemplate(dom) ==
    LET loaded == LoadInstanceFromPrefabDom(dom)
        stored == StoreInstanceInPrefabDom(loaded.instance, {StoreLinkIds})
    IN  IF ~loaded.ok THEN [ok |-> FALSE, dom |-> dom]
        ELSE IF ~stored.ok THEN [ok |-> FALSE, dom |-> dom]
        ELSE [ok |-> TRUE, dom |-> stored.dom]

SanitizeSavingTemplate_NoCopy(dom) ==
    LET loaded == LoadInstanceFromPrefabDom(dom)
        stored == StoreInstanceInPrefabDom(loaded.instance, {StripDefaultValues})
    IN  [ok |-> loaded.ok /\ stored.ok, dom |-> dom]

SanitizeSavingTemplate(dom) ==
    LET loaded == LoadInstanceFromPrefabDom(dom)
        stored == StoreInstanceInPrefabDom(loaded.instance, {StripDefaultValues})
    IN  IF ~loaded.ok THEN [ok |-> FALSE, dom |-> dom]
        ELSE IF ~stored.ok THEN [ok |-> FALSE, dom |-> dom]
        ELSE [ok |-> TRUE, dom |-> stored.dom]

----------------------------------------------------------------------------
(* The prefab system component: owner of the Templates and the Links.      *)

NewTemplate(filePath, prefabDom) ==
    [filePath |-> filePath, prefabDom |-> prefabDom, links |-> {},
     loadedWithErrors |-> FALSE, dirty |-> FALSE, isValid |-> TRUE]

AddTemplate(tpls, filePath, prefabDom) == Append(tpls, NewTemplate(filePath, prefabDom))

HasTemplate(tpls, templateId) == templateId \in 1..Len(tpls)

GetTemplateIdFromFilePath(tpls, filePath) ==
    LET ids == {i \in 1..Len(tpls) : tpls[i].filePath = filePath}
    IN  IF ids = {} THEN InvalidTemplateId
        ELSE CHOOSE i \in ids : \A j \in ids : i <= j

\* The value of a member of "Instances", and the member made of a name and a value.
InstanceValue(instance) == [member \in DOMAIN instance \ {"name"} |-> instance[member]]

InstanceMember(name, value) ==
    [member \in DOMAIN value \cup {"name"} |-> IF member = "name" THEN name ELSE value[member]]

\* A Link keeps the value its instance had when the Link was made.
NewLink(sourceTemplateId, targetTemplateId, instance) ==
    [sourceTemplateId |-> sourceTemplateId, targetTemplateId |-> targetTemplateId,
     instanceName |-> instance.name, linkDom |-> InstanceValue(instance), isValid |-> TRUE]

AddLink(lnks, sourceTemplateId, targetTemplateId, instance) ==
    Append(lnks, NewLink(sourceTemplateId, targetTemplateId, instance))

FindLink(lnks, linkId) == linkId \in 1..Len(lnks)

SetTemplateDirtyFlag(tpls, templateId, dirty) ==
    IF HasTemplate(tpls, templateId) THEN [tpls EXCEPT ![templateId].dirty = dirty] ELSE tpls

InstanceIndexes(dom, instanceName) ==
    {k \in 1..Len(dom.Instances) : dom.Instances[k].name = instanceName}

\* The member of "Instances" an instance iterator designates.
InstanceNamed(dom, instanceName) ==
    dom.Instances[CHOOSE k \in InstanceIndexes(dom, instanceName) : TRUE]

----------------------------------------------------------------------------
(* The state of an EditorVisibleEntityDataCache.                           *)

VARIABLES
    m_visibleEntityIds,      \* the ids that are visible this frame
    m_prevVisibleEntityIds,  \* the ids that were visible the previous frame (unsorted)
    m_visibleEntityDatas,    \* the cached EntityData
    connectedBuses,          \* the buses the cache is connected to
    cacheCall,               \* the last call on the cache, with what it was given
    cacheCalls               \* calls on the cache so far

cacheVars == <<m_visibleEntityIds, m_prevVisibleEntityIds, m_visibleEntityDatas,
               connectedBuses, cacheCall, cacheCalls>>

\* The buses the constructor connects to.
NotificationBuses ==
    {"EditorEntityVisibilityNotificationBus", "EditorEntityLockComponentNotificationBus",
     "TransformNotificationBus", "EditorComponentSelectionNotificationsBus",
     "EntitySelectionEvents", "EditorEntityIconComponentNotificationBus",
     "ToolsApplicationNotificationBus"}

\* The cache after its constructor.
CacheConstructed ==
    /\ m_visibleEntityIds = <<>>
    /\ m_prevVisibleEntityIds = <<>>
    /\ m_visibleEntityDatas = <<>>
    /\ connectedBuses = NotificationBuses
    /\ cacheCall = [kind |-> "EditorVisibleEntityDataCache"]
    /\ cacheCalls = 0

----------------------------------------------------------------------------
(* The loader.                                                             *)

VARIABLES
    files,                   \* the prefab files on disk, by full path
    templates,               \* the Templates of the prefab system component, by id
    links,                   \* its Links, by id
    progressedFilePathsSet,  \* the paths marked as being in progress
    stack,                   \* one frame per LoadTemplateFromString in its instance loop
    result,                  \* the id returned by the last top-level load call
    request,                 \* the last top-level load call
    pre,                     \* the Templates and Links when that call started
    nested,                  \* the nested resolutions made since that call started
    faults                   \* collaborator failures so far

loaderVars == <<files, templates, links, progressedFilePathsSet, stack, result, request,
                pre, nested, faults>>

vars == <<loaderVars, cacheVars>>

Faults(kinds) == {"none"} \cup (IF faults < MaxFaults THEN kinds ELSE {})

Outcome(kind, id, relativePath, dom) ==
    [kind |-> kind, id |-> id, relativePath |-> relativePath, dom |-> dom]

Failed(kind, relativePath) ==
    Outcome(kind, InvalidTemplateId, relativePath, UnparsableContent.dom)

CycleDetected_Never(progressed, relativePath) == FALSE

CycleDetected(progressed, relativePath) == relativePath \in progressed

AlreadyLoaded_Never(loadedTemplateId) == FALSE

AlreadyLoaded(loadedTemplateId) == loadedTemplateId # InvalidTemplateId

LoadTemplateFromString_Begin_MemoFirst(fileContent, originPath, progressed, tpls, lookup, fault) ==
    LET relativePath == GenerateRelativePath(originPath, lookup)
        loadedTemplateId == GetTemplateIdFromFilePath(tpls, relativePath)
        readPrefabFileResult == ReadJsonFromString(fileContent)
    IN  IF ~IsValidPrefabPath(originPath) THEN Failed("invalidPath", relativePath)
        ELSE IF AlreadyLoaded(loadedTemplateId)
             THEN Outcome("memo", loadedTemplateId, relativePath, UnparsableContent.dom)
        ELSE IF CycleDetected(progressed, relativePath) THEN Failed("cycle", relativePath)
        ELSE IF ~readPrefabFileResult.ok THEN Failed("parseError", relativePath)
        ELSE IF fault = "create" THEN Failed("createFailed", relativePath)
        ELSE Outcome("created", Len(tpls) + 1, relativePath,
                     [readPrefabFileResult.dom EXCEPT !.Source = relativePath])

\* LoadTemplateFromString up to the creation of the Template: what the call
\* does with this content and this origin path.
LoadTemplateFromString_Begin(fileContent, originPath, progressed, tpls, lookup, fault) ==
    LET relativePath == GenerateRelativePath(originPath, lookup)
        loadedTemplateId == GetTemplateIdFromFilePath(tpls, relativePath)
        readPrefabFileResult == ReadJsonFromString(fileContent)
    IN  IF ~IsValidPrefabPath(originPath) THEN Failed("invalidPath", relativePath)
        ELSE IF CycleDetected(progressed, relativePath) THEN Failed("cycle", relativePath)
        ELSE IF AlreadyLoaded(loadedTemplateId)
             THEN Outcome("memo", loadedTemplateId, relativePath, UnparsableContent.dom)
        ELSE IF ~readPrefabFileResult.ok THEN Failed("parseError", relativePath)
        ELSE IF fault = "create" THEN Failed("createFailed", relativePath)
        ELSE Outcome("created", Len(tpls) + 1, relativePath,
                     [readPrefabFileResult.dom EXCEPT !.Source = relativePath])

LoadTemplateFromFile_Begin(filePath, progressed, tpls, fs, lookup, fault) ==
    LET fullPath == GetFullPath(filePath, lookup)
    IN  IF ~IsValidPrefabPath(filePath)
        THEN Failed("invalidPath", GenerateRelativePath(filePath, lookup))
        ELSE IF fullPath \notin DOMAIN fs \/ fault = "read"
        THEN Failed("readError", GenerateRelativePath(filePath, lookup))
        ELSE LoadTemplateFromString_Begin(fs[fullPath], filePath, progressed, tpls, lookup, fault)

\* A failure is injected only where the collaborator is called.
FaultTaken(fault, outcome) ==
    /\ fault = "read" => outcome.kind = "readError"
    /\ fault = "create" => outcome.kind = "createFailed"
    /\ fault \in {"none", "read", "create"}

MarkInProgress(progressed, relativePath) == progressed \cup {relativePath}

UnmarkInProgress(progressed, originPath, relativePath) == progressed \ {originPath}

Frame(templateId, originPath, relativePath, onChain) ==
    [templateId |-> templateId, originPath |-> originPath, relativePath |-> relativePath,
     index |-> 1, isLoadSuccessful |-> TRUE, onChain |-> onChain]

Top == stack[Len(stack)]

InProgressPaths == {stack[i].relativePath : i \in 1..Len(stack)}

AccumulateSuccess_LastWins(isLoadSuccessful, instanceOk) == instanceOk

AccumulateSuccess(isLoadSuccessful, instanceOk) == isLoadSuccessful /\ instanceOk

ContinueAfterInstance_SkipsOne(index, count, instanceOk) == index + 2

ContinueAfterInstance_Stays(index, count, instanceOk) == index

ContinueAfterInstance(index, count, instanceOk) == index + 1

AfterInstance(frame, count, instanceOk) ==
    [frame EXCEPT !.index = ContinueAfterInstance(@, count, instanceOk),
                  !.isLoadSuccessful = AccumulateSuccess(@, instanceOk)]

HasSourceString_AnyString(instance) == instance.Source.isString

HasSourceString(instance) == instance.Source.isString /\ Len(instance.Source.value) # 0

NestedInstanceResult_NoCarry(nestedTemplate) == TRUE

NestedInstanceResult(nestedTemplate) == ~nestedTemplate.loadedWithErrors

LoadNestedInstance_End_NoLinkOnErrors(tpls, lnks, targetTemplateId, instanceName, nestedTemplateId, fault) ==
    IF ~HasTemplate(tpls, nestedTemplateId) \/ ~tpls[nestedTemplateId].isValid
    THEN [ok |-> FALSE, linked |-> FALSE, templates |-> tpls, links |-> lnks]
    ELSE IF fault = "link" \/ tpls[nestedTemplateId].loadedWithErrors
    THEN [ok |-> FALSE, linked |-> FALSE, templates |-> tpls, links |-> lnks]
    ELSE [ok |-> TRUE, linked |-> TRUE,
          templates |-> [tpls EXCEPT ![targetTemplateId].links = @ \cup {Len(lnks) + 1}],
          links |-> AddLink(lnks, nestedTemplateId, targetTemplateId,
                           InstanceNamed(tpls[targetTemplateId].prefabDom, instanceName))]

LoadNestedInstance_End_SwappedLink(tpls, lnks, targetTemplateId, instanceName, nestedTemplateId, fault) ==
    IF ~HasTemplate(tpls, nestedTemplateId) \/ ~tpls[nestedTemplateId].isValid
    THEN [ok |-> FALSE, linked |-> FALSE, templates |-> tpls, links |-> lnks]
    ELSE IF fault = "link"
    THEN [ok |-> FALSE, linked |-> FALSE, templates |-> tpls, links |-> lnks]
    ELSE [ok |-> NestedInstanceResult(tpls[nestedTemplateId]), linked |-> TRUE,
          templates |-> [tpls EXCEPT ![targetTemplateId].links = @ \cup {Len(lnks) + 1}],
          links |-> AddLink(lnks, targetTemplateId, nestedTemplateId,
                           InstanceNamed(tpls[targetTemplateId].prefabDom, instanceName))]

LoadNestedInstance_End_IgnoresLinkFailure(tpls, lnks, targetTemplateId, instanceName, nestedTemplateId, fault) ==
    IF ~HasTemplate(tpls, nestedTemplateId) \/ ~tpls[nestedTemplateId].isValid
    THEN [ok |-> FALSE, linked |-> FALSE, templates |-> tpls, links |-> lnks]
    ELSE IF fault = "link"
    THEN [ok |-> NestedInstanceResult(tpls[nestedTemplateId]), linked |-> FALSE,
          templates |-> tpls, links |-> lnks]
    ELSE [ok |-> NestedInstanceResult(tpls[nestedTemplateId]), linked |-> TRUE,
          templates |-> [tpls EXCEPT ![targetTemplateId].links = @ \cup {Len(lnks) + 1}],
          links |-> AddLink(lnks, nestedTemplateId, targetTemplateId,
                           InstanceNamed(tpls[targetTemplateId].prefabDom, instanceName))]

\* LoadNestedInstance once the recursive call has returned nestedTemplateId.
LoadNestedInstance_End(tpls, lnks, targetTemplateId, instanceName, nestedTemplateId, fault) ==
    IF ~HasTemplate(tpls, nestedTemplateId) \/ ~tpls[nestedTemplateId].isValid
    THEN [ok |-> FALSE, linked |-> FALSE, templates |-> tpls, links |-> lnks]
    ELSE IF fault = "link"
    THEN [ok |-> FALSE, linked |-> FALSE, templates |-> tpls, links |-> lnks]
    ELSE [ok |-> NestedInstanceResult(tpls[nestedTemplateId]), linked |-> TRUE,
          templates |-> [tpls EXCEPT ![targetTemplateId].links = @ \cup {Len(lnks) + 1}],
          links |-> AddLink(lnks, nestedTemplateId, targetTemplateId,
                           InstanceNamed(tpls[targetTemplateId].prefabDom, instanceName))]

AfterSanitize_IgnoresResult(isLoadSuccessful, sanitized) == isLoadSuccessful

\* isLoadSuccessful once the result of SanitizeLoadedTemplate is in.
AfterSanitize(isLoadSuccessful, sanitized) == isLoadSuccessful /\ sanitized.ok

MarkAsLoadedWithErrors_Never(isLoadSuccessful) == FALSE

MarkAsLoadedWithErrors(isLoadSuccessful) == ~isLoadSuccessful

LoadReturnValue_InvalidOnErrors(newTemplateId, isLoadSuccessful) ==
    IF isLoadSuccessful THEN newTemplateId ELSE InvalidTemplateId

LoadReturnValue(newTemplateId, isLoadSuccessful) == newTemplateId

\* One nested resolution, as the model records it.
NestedEntry(target, name, relativePath, kind, id, onChain, linked, fault) ==
    [target |-> target, name |-> name, relativePath |-> relativePath, kind |-> kind,
     id |-> id, onChain |-> onChain, linked |-> linked, fault |-> fault]

Init ==
    /\ files \in FileSystems
    /\ templates = <<>>
    /\ links = <<>>
    /\ progressedFilePathsSet = {}
    /\ stack = <<>>
    /\ result = InvalidTemplateId
    /\ request = [kind |-> "none", path |-> <<>>, fault |-> "none", content |-> UnparsableContent]
    /\ pre = [templates |-> <<>>, links |-> <<>>]
    /\ nested = {}
    /\ CacheConstructed
    /\ faults = 0

\* The paths the callers ask for.
FilePaths == {RelA, AbsB, RelC, EmptyPath}
OriginPaths == {RelB, TrailingSeparatorPath}

StringContents ==
    { [parsable |-> TRUE, dom |-> [Source |-> NoSource, ContainerEntity |-> "absent",
                                   Instances |-> <<>>]] }

\* What the caller would read at a full path (nothing that parses if there is
\* no such file).
FileContent(fs, fullPath) == IF fullPath \in DOMAIN fs THEN fs[fullPath] ELSE UnparsableContent

\* A top-level call starts with an empty set of progressed paths.
BeginTopLevel(outcome, kind, originPath, content, fault) ==
    /\ FaultTaken(fault, outcome)
    /\ request' = [kind |-> kind, path |-> originPath, fault |-> fault, content |-> content]
    /\ pre' = [templates |-> templates, links |-> links]
    /\ nested' = {}
    /\ faults' = IF fault = "none" THEN faults ELSE faults + 1
    /\ UNCHANGED <<cacheVars, files, links>>
    /\ IF outcome.kind = "created"
       THEN /\ templates' = AddTemplate(templates, outcome.relativePath, outcome.dom)
            /\ progressedFilePathsSet' = MarkInProgress({}, outcome.relativePath)
            /\ stack' = <<Frame(outcome.id, originPath, outcome.relativePath, FALSE)>>
            /\ result' = InvalidTemplateId
       ELSE /\ templates' = templates
            /\ progressedFilePathsSet' = {}
            /\ stack' = <<>>
            /\ result' = outcome.id

LoadTemplateFromFile(filePath) ==
    /\ stack = <<>>
    /\ \E fault \in Faults({"read", "create"}) :
       \E call \in { [outcome |-> LoadTemplateFromFile_Begin(filePath, {}, templates, files,
                                                           lookup, fault),
                      content |-> FileContent(files, GetFullPath(filePath, lookup))] :
                     lookup \in AssetSystemLookups(filePath) } :
          BeginTopLevel(call.outcome, "file", filePath, call.content, fault)

LoadTemplateFromString(content, originPath) ==
    /\ stack = <<>>
    /\ \E fault \in Faults({"create"}) :
       \E outcome \in { LoadTemplateFromString_Begin(content, originPath, {}, templates,
                                                     lookup, fault) :
                        lookup \in AssetSystemLookups(originPath) } :
          BeginTopLevel(outcome, "string", originPath, content, fault)

LoadNestedInstance ==
    /\ stack # <<>>
    /\ LET f == Top
           instances == templates[f.templateId].prefabDom.Instances
       IN  /\ f.index <= Len(instances)
           /\ LET instance == instances[f.index]
                  nestedTemplatePath == instance.Source.value
              IN  IF ~IsValidPrefabPath(instance.name) \/ ~HasSourceString(instance)
                  THEN /\ stack' = [stack EXCEPT ![Len(stack)] =
                                        AfterInstance(f, Len(instances), FALSE)]
                       /\ nested' = nested \cup
                              {NestedEntry(f.templateId, instance.name, <<>>, "invalidInstance",
                                           InvalidTemplateId, FALSE, FALSE, "none")}
                       /\ UNCHANGED <<cacheVars, files, templates, links, progressedFilePathsSet, result,
                                      request, pre, faults>>
                  ELSE \E fault \in Faults({"read", "create", "link"}) :
                       \E o \in { LoadTemplateFromFile_Begin(nestedTemplatePath,
                                      progressedFilePathsSet, templates, files, lookup, fault) :
                                  lookup \in AssetSystemLookups(nestedTemplatePath) } :
                          LET onChain == o.relativePath \in InProgressPaths
                              e == LoadNestedInstance_End(templates, links, f.templateId,
                                       instance.name, o.id, fault)
                          IN  IF o.kind = "created"
                              THEN /\ fault = "none"
                                   /\ templates' = AddTemplate(templates, o.relativePath, o.dom)
                                   /\ progressedFilePathsSet' =
                                          MarkInProgress(progressedFilePathsSet, o.relativePath)
                                   /\ stack' = Append(stack, Frame(o.id, nestedTemplatePath,
                                                                   o.relativePath, onChain))
                                   /\ UNCHANGED <<cacheVars, files, links, result, request, pre, nested,
                                                  faults>>
                              ELSE /\ fault = "read" => o.kind = "readError"
                                   /\ fault = "create" => o.kind = "createFailed"
                                   /\ fault = "link" => o.kind = "memo"
                                   /\ templates' = e.templates
                                   /\ links' = e.links
                                   /\ stack' = [stack EXCEPT ![Len(stack)] =
                                                    AfterInstance(f, Len(instances), e.ok)]
                                   /\ nested' = nested \cup
                                          {NestedEntry(f.templateId, instance.name,
                                                       o.relativePath, o.kind, o.id, onChain,
                                                       e.linked, fault)}
                                   /\ faults' = IF fault = "none" THEN faults ELSE faults + 1
                                   /\ UNCHANGED <<cacheVars, files, progressedFilePathsSet, result,
                                                  request, pre>>

\* The end of LoadTemplateFromString, and of the LoadNestedInstance that called it.
FinishLoadTemplate ==
    /\ stack # <<>>
    /\ LET f == Top
           newTemplate == templates[f.templateId]
       IN  /\ f.index > Len(newTemplate.prefabDom.Instances)
           /\ LET sanitized == SanitizeLoadedTemplate(newTemplate.prefabDom)
                  isLoadSuccessful == AfterSanitize(f.isLoadSuccessful, sanitized)
                  marked == [templates EXCEPT
                                ![f.templateId].prefabDom = sanitized.dom,
                                ![f.templateId].loadedWithErrors =
                                    MarkAsLoadedWithErrors(isLoadSuccessful)]
                  returned == LoadReturnValue(f.templateId, isLoadSuccessful)
              IN  /\ progressedFilePathsSet' =
                         UnmarkInProgress(progressedFilePathsSet, f.originPath, f.relativePath)
                  /\ IF Len(stack) = 1
                     THEN /\ templates' = marked
                          /\ stack' = <<>>
                          /\ result' = returned
                          /\ UNCHANGED <<cacheVars, files, links, request, pre, nested, faults>>
                     ELSE \E fault \in Faults({"link"}) :
                          LET parent == stack[Len(stack) - 1]
                              instances == templates[parent.templateId].prefabDom.Instances
                              instance == instances[parent.index]
                              e == LoadNestedInstance_End(marked, links, parent.templateId,
                                       instance.name, returned, fault)
                          IN  /\ fault = "link" => HasTemplate(marked, returned)
                              /\ templates' = e.templates
                              /\ links' = e.links
                              /\ stack' = Append(SubSeq(stack, 1, Len(stack) - 2),
                                                 AfterInstance(parent, Len(instances), e.ok))
                              /\ nested' = nested \cup
                                     {NestedEntry(parent.templateId, instance.name,
                                                  f.relativePath, "created", returned,
                                                  f.onChain, e.linked, fault)}
                              /\ faults' = IF fault = "none" THEN faults ELSE faults + 1
                              /\ UNCHANGED <<cacheVars, files, result, request, pre>>

Next ==
    \/ \E filePath \in FilePaths : LoadTemplateFromFile(filePath)
    \/ \E content \in StringContents : \E originPath \in OriginPaths :
           LoadTemplateFromString(content, originPath)
    \/ LoadNestedInstance
    \/ FinishLoadTemplate

Spec == Init /\ [][Next]_vars

TypeOK == faults <= MaxFaults

----------------------------------------------------------------------------
(* Properties of the loader.                                               *)

Completed == stack = <<>> /\ request.kind # "none"

Finished(templateId) == \A i \in 1..Len(stack) : stack[i].templateId # templateId

TemplatesAt(filePath) == {i \in 1..Len(templates) : templates[i].filePath = filePath}

LinkAt(targetTemplateId, instanceName) ==
    \E l \in 1..Len(links) : /\ links[l].targetTemplateId = targetTemplateId
                             /\ links[l].instanceName = instanceName

LinkFrom(sourceTemplateId, targetTemplateId, instanceName) ==
    \E l \in 1..Len(links) : /\ links[l].sourceTemplateId = sourceTemplateId
                             /\ links[l].targetTemplateId = targetTemplateId
                             /\ links[l].instanceName = instanceName

\* The canonical relative path of a path of the model's files.
CanonicalPath(path) ==
    IF path = AbsA THEN RelA ELSE IF path = AbsB THEN RelB ELSE IF path = AbsC THEN RelC
    ELSE path

\* The Template the current top-level call created for its own document, if any.
RootId == Len(pre.templates) + 1
RootCreated == Len(templates) > Len(pre.templates)

\* C1: within one top-level load, two nested resolutions of the same canonical
\* path, neither of them made from inside the resolution of that path, return
\* the same valid Template id, and the registry holds exactly one Template for
\* that path.
C1_SamePathSameTemplate ==
    \A e1 \in nested : \A e2 \in nested :
        ( /\ e1.relativePath = e2.relativePath
          /\ e1.id # InvalidTemplateId
          /\ e2.kind \in {"cycle", "memo", "created"}
          /\ ~e2.onChain )
        => /\ e2.id = e1.id
           /\ Cardinality(TemplatesAt(e1.relativePath)) = 1

\* C2: a nested resolution that reaches the cycle check is rejected as a cycle
\* if and only if its canonical path is the path of a Template on the current
\* ancestor chain.
C2_CycleOnlyOnAncestorChain ==
    \A e \in nested :
        e.kind \in {"cycle", "memo", "parseError", "createFailed", "created"}
        => (e.kind = "cycle" <=> e.onChain)

\* C3: a nested resolution of a path that is being resolved on the ancestor
\* chain fails with the invalid id (as a detected cycle whenever its file could
\* be read), creates no Template for that path and gets no Link.
C3_CycleRejected ==
    \A e \in nested :
        e.onChain => /\ e.id = InvalidTemplateId
                     /\ e.fault # "read" => e.kind = "cycle"
                     /\ ~LinkAt(e.target, e.name)
                     /\ Cardinality(TemplatesAt(e.relativePath)) = 1

C3_Witness ==
    \E e \in nested : /\ e.onChain /\ e.kind = "cycle"
                      /\ templates[e.target].filePath # e.relativePath
                      /\ Completed

\* C4: when a top-level load call has returned, the set of progressed paths is
\* empty again.
C4_ProgressedSetUnwound == Completed => progressedFilePathsSet = {}

\* C5: when one instance of a document fails to read or parse, the document's
\* load still returns its valid id, the Template is loaded-with-errors, every
\* instance has been processed, each instance that resolved to a Template has
\* its Link and each one that did not has none.
C5_ContinueOnError ==
    \A t \in 1..Len(templates) :
        ( /\ Finished(t)
          /\ \E e \in nested : e.target = t /\ e.kind \in {"readError", "parseError"} )
        => /\ templates[t].loadedWithErrors
           /\ (t = RootId /\ Completed) => result = t
           /\ t # RootId => \E e \in nested : e.kind = "created" /\ e.id = t
           /\ \A k \in 1..Len(templates[t].prefabDom.Instances) :
                  \E e \in nested :
                      /\ e.target = t
                      /\ e.name = templates[t].prefabDom.Instances[k].name
                      /\ (e.id # InvalidTemplateId /\ e.fault # "link")
                             => LinkFrom(e.id, t, e.name)
                      /\ e.id = InvalidTemplateId => ~LinkAt(t, e.name)

C5_Witness ==
    \E t \in 1..Len(templates) : \E e1 \in nested : \E e2 \in nested :
        /\ Finished(t) /\ e1.target = t /\ e2.target = t
        /\ e1.name = <<"i", "1">> /\ e1.kind = "parseError"
        /\ e2.name = <<"i", "2">> /\ LinkFrom(e2.id, t, e2.name)
        /\ templates[t].loadedWithErrors

\* C6: after completed load calls, the Template that contains a nested Template
\* which is loaded-with-errors is loaded-with-errors itself.
C6_ErrorsCarriedOverLinks ==
    stack = <<>> =>
        \A l \in 1..Len(links) :
            templates[links[l].sourceTemplateId].loadedWithErrors
                => templates[links[l].targetTemplateId].loadedWithErrors

C6_Witness ==
    /\ Completed
    /\ \E e \in nested : /\ e.kind = "memo"
                         /\ e.id <= Len(pre.templates)
                         /\ templates[e.id].loadedWithErrors
                         /\ LinkFrom(e.id, e.target, e.name)

\* C7: a load that has created the Template of its document returns the id of
\* that Template, the Template stays registered under its path, and what fails
\* afterwards shows in the loaded-with-errors flag only.
C7_CreatedTemplateIsReturned ==
    /\ (Completed /\ RootCreated) => /\ result = RootId
                                     /\ HasTemplate(templates, result)
    /\ \A e \in nested : e.kind = "created" =>
           /\ HasTemplate(templates, e.id)
           /\ templates[e.id].filePath = e.relativePath
    /\ \A i \in 1..Len(pre.templates) :
           /\ HasTemplate(templates, i)
           /\ templates[i].filePath = pre.templates[i].filePath
    /\ \A e \in nested :
           (Finished(e.target) /\ (e.id = InvalidTemplateId \/ ~e.linked))
               => templates[e.target].loadedWithErrors

C7_Witness ==
    /\ Completed /\ RootCreated /\ result = RootId
    /\ templates[RootId].loadedWithErrors
    /\ \E e \in nested : e.target = RootId /\ e.kind = "cycle"

\* C8: a top-level load of an invalid path, of an unreadable file, of content
\* that does not parse or of a Template the registry refuses returns the
\* invalid id, and a top-level load that returns the invalid id leaves the
\* Templates, the Links and the progressed paths as they were.
C8_FatalRootLoadChangesNothing ==
    Completed =>
        /\ request.path \in InvalidPaths => result = InvalidTemplateId
        /\ request.fault \in {"read", "create"} => result = InvalidTemplateId
        /\ ( /\ ~request.content.parsable
             /\ GetTemplateIdFromFilePath(pre.templates, CanonicalPath(request.path))
                    = InvalidTemplateId )
           => result = InvalidTemplateId
        /\ result = InvalidTemplateId => /\ templates = pre.templates
                                         /\ links = pre.links
                                         /\ progressedFilePathsSet = {}

C8_Witness ==
    /\ Completed /\ result = InvalidTemplateId
    /\ Len(pre.templates) > 0 /\ Len(pre.links) > 0
    /\ request.path \notin InvalidPaths
    /\ ~request.content.parsable

\* C9: a top-level load of a path that already has a Template returns the id of
\* that Template, whatever the file or the content is, and changes neither the
\* Templates nor the Links.
C9_LoadedPathIsNotReadAgain ==
    LET loadedTemplateId ==
            GetTemplateIdFromFilePath(pre.templates, CanonicalPath(request.path))
    IN  (Completed /\ request.path \notin InvalidPaths
             /\ loadedTemplateId # InvalidTemplateId)
        => /\ result = loadedTemplateId
           /\ templates = pre.templates
           /\ links = pre.links

\* C10: no two Templates have the same file path.
C10_UniqueTemplatePaths ==
    \A i \in 1..Len(templates) : \A j \in 1..Len(templates) :
        templates[i].filePath = templates[j].filePath => i = j

C10_Witness ==
    /\ Completed /\ Len(pre.templates) > 0
    /\ result # InvalidTemplateId
    /\ result <= Len(pre.templates)
    /\ templates = pre.templates

LinksJoining(sourceTemplateId, targetTemplateId, instanceName) ==
    {l \in 1..Len(links) : /\ links[l].sourceTemplateId = sourceTemplateId
                            /\ links[l].targetTemplateId = targetTemplateId
                            /\ links[l].instanceName = instanceName}

LinksAnchoredAt(targetTemplateId, instanceName) ==
    {l \in 1..Len(links) : /\ links[l].targetTemplateId = targetTemplateId
                            /\ links[l].instanceName = instanceName}

\* C17 (as stated): an instance with a valid key and a valid source has exactly
\* one Link, from the nested Template to the Template of its document and
\* anchored at its key, if its resolution returned a valid Template (flagged
\* loaded-with-errors or not), and no Link if it returned the invalid id.
C17_OneLinkPerResolvedInstance ==
    \A e \in nested :
        e.kind # "invalidInstance" =>
            /\ e.id # InvalidTemplateId =>
                   /\ Cardinality(LinksJoining(e.id, e.target, e.name)) = 1
                   /\ Cardinality(LinksAnchoredAt(e.target, e.name)) = 1
            /\ e.id = InvalidTemplateId => LinksAnchoredAt(e.target, e.name) = {}

\* C17 (amended): an instance with a valid key and a valid source has exactly
\* one Link, from the nested Template to the Template of its document and
\* anchored at its key, if its resolution returned a valid Template (flagged
\* loaded-with-errors or not) and the registry created the Link; it has no Link
\* if the resolution returned the invalid id or the registry refused the Link.
C17_OneLinkPerLinkedInstance ==
    \A e \in nested :
        e.kind # "invalidInstance" =>
            /\ (e.id # InvalidTemplateId /\ e.fault # "link") =>
                   /\ Cardinality(LinksJoining(e.id, e.target, e.name)) = 1
                   /\ Cardinality(LinksAnchoredAt(e.target, e.name)) = 1
                   /\ e.linked
            /\ (e.id = InvalidTemplateId \/ e.fault = "link") =>
                   /\ LinksAnchoredAt(e.target, e.name) = {}
                   /\ ~e.linked

C17_Witness ==
    /\ Completed
    /\ \E e1 \in nested : \E e2 \in nested :
           /\ e1.target = e2.target
           /\ e1.kind = "created" /\ templates[e1.id].loadedWithErrors
           /\ Cardinality(LinksJoining(e1.id, e1.target, e1.name)) = 1
           /\ e2.kind = "readError" /\ e2.id = InvalidTemplateId
           /\ LinksAnchoredAt(e2.target, e2.name) = {}

\* C20: every Link joins a source Template and a target Template that are both
\* in the registry and valid, and the document of the target Template has the
\* instance the Link is anchored at.
C20_LinksJoinValidTemplates ==
    \A l \in 1..Len(links) :
        LET source == links[l].sourceTemplateId
            target == links[l].targetTemplateId
        IN  /\ HasTemplate(templates, source) /\ HasTemplate(templates, target)
            /\ templates[source].isValid /\ templates[target].isValid
            /\ \E k \in 1..Len(templates[target].prefabDom.Instances) :
                   templates[target].prefabDom.Instances[k].name = links[l].instanceName
            /\ l \in templates[target].links

C20_Witness ==
    /\ Completed /\ Len(links) >= 2
    /\ \E l1 \in 1..Len(links) : \E l2 \in 1..Len(links) :
           /\ links[l1].targetTemplateId = links[l2].targetTemplateId
           /\ links[l1].instanceName # links[l2].instanceName
           /\ links[l1].sourceTemplateId # links[l1].targetTemplateId

\* The Links as edges from the source (nested) Template to the target
\* (containing) Template.
LinkEdges ==
    {<<links[l].sourceTemplateId, links[l].targetTemplateId>> : l \in 1..Len(links)}

\* The Templates that the Templates of ids are, directly, nested in.
ContainersOf(ids) == {edge[2] : edge \in {e \in LinkEdges : e[1] \in ids}}

RECURSIVE NestedInto(_)
\* ids and every Template that one of ids is nested in, however deeply.
NestedInto(ids) ==
    IF ContainersOf(ids) \subseteq ids THEN ids ELSE NestedInto(ids \cup ContainersOf(ids))

\* C36: no Link joins a Template to itself, and following the Links from
\* source to target never leads back to the Template one started from.
C36_LinkGraphAcyclic ==
    /\ \A edge \in LinkEdges : edge[1] # edge[2]
    /\ \A edge \in LinkEdges : edge[1] \notin NestedInto({edge[2]})

\* A load of documents that nest each other has returned: the nested document
\* got its Link into the document that was loaded, and its own instance of
\* that document was rejected as a cycle and got none.
C36_Witness ==
    /\ Completed
    /\ \E e \in nested : \E edge \in LinkEdges :
           /\ e.kind = "cycle" /\ e.onChain
           /\ edge[1] = e.target
           /\ HasTemplate(templates, edge[2])
           /\ templates[edge[2]].filePath = e.relativePath

\* C21: at every point of a load, the set of progressed paths is exactly the
\* set of the canonical paths of the Templates whose instances are being
\* processed on the call stack.
C21_ProgressedSetIsCallStack == progressedFilePathsSet = InProgressPaths

\* The document a Template of the current top-level call was created from.
DocumentOf(templateId) ==
    IF templateId = RootId THEN request.content.dom
    ELSE files[PathAppend(ProjectPath, templates[templateId].filePath)].dom

CreatedByThisLoad(templateId) ==
    /\ request.kind \in {"file", "string"}
    /\ templateId \in (Len(pre.templates) + 1)..Len(templates)

\* The instance passed the key and source checks, resolved to a valid Template
\* that is not loaded-with-errors, and got its Link.
InstanceSucceeded(targetTemplateId, instanceName) ==
    \E e \in nested : /\ e.target = targetTemplateId /\ e.name = instanceName
                      /\ e.kind # "invalidInstance"
                      /\ e.id # InvalidTemplateId
                      /\ LinkFrom(e.id, targetTemplateId, instanceName)
                      /\ ~templates[e.id].loadedWithErrors

AllInstancesSucceeded(templateId) ==
    \A k \in 1..Len(templates[templateId].prefabDom.Instances) :
        InstanceSucceeded(templateId, templates[templateId].prefabDom.Instances[k].name)

ExpandSucceeded(templateId) ==
    SanitizeLoadedTemplate([DocumentOf(templateId) EXCEPT
                               !.Source = templates[templateId].filePath]).ok

\* C22: once the resolution of a Template created by the current load has
\* ended, its loaded-with-errors flag is the negation of (every instance
\* succeeded and the Expand pass succeeded).
C22_LoadedWithErrorsFlag ==
    \A t \in 1..Len(templates) :
        (CreatedByThisLoad(t) /\ Finished(t))
        => (templates[t].loadedWithErrors
                <=> ~(AllInstancesSucceeded(t) /\ ExpandSucceeded(t)))

\* A Template whose instances all succeeded and whose Expand pass failed.
C22_Witness ==
    /\ Completed
    /\ \E t \in 1..Len(templates) :
           /\ CreatedByThisLoad(t) /\ Finished(t)
           /\ templates[t].prefabDom.Instances # <<>>
           /\ AllInstancesSucceeded(t) /\ ~ExpandSucceeded(t)
           /\ templates[t].loadedWithErrors

\* C24: a nested load of a path that is being resolved above it is rejected
\* although the registry holds a Template for that path, and a nested load that
\* is answered from the registry is never for a path that is being resolved:
\* the Template it returns has finished its own resolution.
C24_CycleCheckBeforeMemoization ==
    \A e \in nested :
        /\ e.onChain => /\ e.id = InvalidTemplateId
                        /\ e.kind # "memo"
                        /\ GetTemplateIdFromFilePath(templates, e.relativePath)
                               # InvalidTemplateId
        /\ e.kind = "memo" => /\ ~e.onChain
                              /\ HasTemplate(templates, e.id)
                              /\ Finished(e.id)

C24_Witness ==
    /\ Completed
    /\ \E e1 \in nested : \E e2 \in nested :
           /\ e1.target = e2.target
           /\ e1.onChain /\ e1.kind = "cycle"
           /\ e2.kind = "memo" /\ LinkFrom(e2.id, e2.target, e2.name)

PositionOf(templateId, instanceName) ==
    CHOOSE k \in InstanceIndexes(templates[templateId].prefabDom, instanceName) : TRUE

Processed(templateId, instanceName) ==
    \E e \in nested : e.target = templateId /\ e.name = instanceName

NewLinks == (Len(pre.links) + 1)..Len(links)

\* C25: in every call on the stack exactly the instances before the current
\* one have been resolved; a Template whose resolution has ended has had every
\* instance resolved; the Links of one document were created in the order of
\* its instances, one at most per instance; and the Templates created for the
\* instances of a document were created after it, in the order of the instances.
C25_DocumentOrder ==
    /\ \A i \in 1..Len(stack) :
           LET instances == templates[stack[i].templateId].prefabDom.Instances
           IN  \A k \in 1..Len(instances) :
                   Processed(stack[i].templateId, instances[k].name) <=> k < stack[i].index
    /\ \A t \in 1..Len(templates) :
           (CreatedByThisLoad(t) /\ Finished(t)) =>
               \A k \in 1..Len(templates[t].prefabDom.Instances) :
                   Processed(t, templates[t].prefabDom.Instances[k].name)
    /\ \A l1 \in NewLinks : \A l2 \in NewLinks :
           links[l1].targetTemplateId = links[l2].targetTemplateId =>
               (l1 < l2 <=> PositionOf(links[l1].targetTemplateId, links[l1].instanceName)
                                < PositionOf(links[l2].targetTemplateId, links[l2].instanceName))
    /\ \A e1 \in nested : e1.kind = "created" =>
           /\ e1.target < e1.id
           /\ \A e2 \in nested :
                  ( /\ e2.kind = "created" /\ e2.target = e1.target
                    /\ PositionOf(e1.target, e1.name) < PositionOf(e2.target, e2.name) )
                  => e1.id < e2.id

\* The second instance of a document is being resolved; the first one has its
\* Template and its Link.
C25_Witness ==
    /\ Len(stack) = 1 /\ stack[1].index = 2
    /\ Len(templates[stack[1].templateId].prefabDom.Instances) = 2
    /\ \E l \in NewLinks : \E e \in nested :
           /\ links[l].targetTemplateId = stack[1].templateId
           /\ links[l].instanceName = <<"i", "1">>
           /\ e.kind = "created" /\ e.target = stack[1].templateId
           /\ e.id = links[l].sourceTemplateId

\* C27: the step in which the registry refuses the Link of an instance whose
\* nested Template resolved adds no Link, removes no Template, changes no
\* Template but the one whose resolution ends in that very step, leaves the
\* Links of every Template as they were and marks the load of the containing
\* document unsuccessful; the instance has no Link, its nested Template stays
\* registered with the flag its own resolution gave it, and the containing
\* Template, once resolved, has had every instance handled and is
\* loaded-with-errors.
C27_LinkFailureFailsInstanceOnly ==
    /\ [][\A e \in nested' \ nested :
              e.fault = "link" =>
                  /\ links' = links
                  /\ Len(templates') = Len(templates)
                  /\ \A t \in 1..Len(templates) :
                         /\ templates'[t].links = templates[t].links
                         /\ templates'[t].filePath = templates[t].filePath
                         /\ (t # e.id \/ e.kind = "memo") => templates'[t] = templates[t]
                  /\ stack' # <<>>
                  /\ stack'[Len(stack')].templateId = e.target
                  /\ ~stack'[Len(stack')].isLoadSuccessful]_vars
    /\ [](\A e \in nested :
              e.fault = "link" =>
                  /\ ~e.linked
                  /\ LinksAnchoredAt(e.target, e.name) = {}
                  /\ HasTemplate(templates, e.id) /\ templates[e.id].isValid
                  /\ templates[e.id].filePath = e.relativePath
                  /\ e.kind = "created" =>
                         (templates[e.id].loadedWithErrors
                              <=> ~(AllInstancesSucceeded(e.id) /\ ExpandSucceeded(e.id)))
                  /\ e.id <= Len(pre.templates) => templates[e.id] = pre.templates[e.id]
                  /\ Finished(e.target) =>
                         /\ templates[e.target].loadedWithErrors
                         /\ \A k \in 1..Len(templates[e.target].prefabDom.Instances) :
                                Processed(e.target,
                                          templates[e.target].prefabDom.Instances[k].name))

\* The Link of the first instance was refused, its nested Template was just
\* created without errors, and the second instance was resolved and linked.
C27_Witness ==
    /\ Completed
    /\ \E e1 \in nested : \E e2 \in nested :
           /\ e1.target = e2.target
           /\ e1.fault = "link" /\ e1.kind = "created"
           /\ ~templates[e1.id].loadedWithErrors
           /\ PositionOf(e1.target, e1.name) < PositionOf(e2.target, e2.name)
           /\ LinkFrom(e2.id, e2.target, e2.name)
           /\ templates[e1.target].loadedWithErrors

\* The document of a Template as AddTemplate received it.
CreatedDocument(templateId) ==
    [DocumentOf(templateId) EXCEPT !.Source = templates[templateId].filePath]

OnStack(templateId) == \E i \in 1..Len(stack) : stack[i].templateId = templateId

\* C28: the document of a Template changes only in the step that ends its
\* resolution, when all its instances have been handled, and that step, which
\* a Template takes once, removes no Link; until then the document is the one
\* the Template was created with, afterwards it is the Expand of that document
\* or, if the Expand pass failed, that document itself; and a Template whose
\* Expand pass failed is loaded-with-errors, its id was returned and every
\* Link made for its instances is in the registry.
C28_ExpandOnceAfterInstances ==
    /\ [][\A t \in 1..Len(templates) :
              /\ templates'[t].prefabDom # templates[t].prefabDom
                     => /\ stack # <<>> /\ Top.templateId = t
                        /\ Top.index > Len(templates[t].prefabDom.Instances)
              /\ (OnStack(t) /\ ~OnStack(t)')
                     => /\ Top.templateId = t
                        /\ Top.index > Len(templates[t].prefabDom.Instances)
                        /\ templates'[t].prefabDom
                               = SanitizeLoadedTemplate(templates[t].prefabDom).dom
                        /\ \A l \in 1..Len(links) : links'[l] = links[l]
              /\ ~OnStack(t) => ~OnStack(t)']_vars
    /\ [](\A t \in 1..Len(templates) :
              CreatedByThisLoad(t) =>
                  /\ OnStack(t) => templates[t].prefabDom = CreatedDocument(t)
                  /\ Finished(t) =>
                         /\ templates[t].prefabDom
                                = SanitizeLoadedTemplate(CreatedDocument(t)).dom
                         /\ ~ExpandSucceeded(t) =>
                                /\ templates[t].loadedWithErrors
                                /\ templates[t].prefabDom = CreatedDocument(t)
                                /\ (t = RootId /\ Completed) => result = t
                                /\ t # RootId =>
                                       \E e \in nested : e.kind = "created" /\ e.id = t
                                /\ \A e \in nested :
                                       (e.target = t /\ e.linked)
                                           => LinkFrom(e.id, t, e.name))

\* The Expand pass of the loaded document failed after its instance was linked.
C28_Witness ==
    /\ Completed /\ RootCreated /\ result = RootId
    /\ ~ExpandSucceeded(RootId)
    /\ templates[RootId].loadedWithErrors
    /\ \E e \in nested : /\ e.target = RootId /\ e.linked
                          /\ ~templates[e.id].loadedWithErrors
                          /\ LinkFrom(e.id, RootId, e.name)

----------------------------------------------------------------------------
(* Loads of one document whose instances fail in every way an instance can: *)
(* an invalid key, a "Source" that is no string or is empty, a path that is *)
(* being resolved.                                                         *)

SiblingKinds ==
    { [validName |-> TRUE, Source |-> StringValue(RelA)],
      [validName |-> TRUE, Source |-> StringValue(RelB)],
      [validName |-> TRUE, Source |-> StringValue(AbsB)],
      [validName |-> FALSE, Source |-> StringValue(RelB)],
      [validName |-> TRUE, Source |-> NotAString],
      [validName |-> TRUE, Source |-> StringValue(<<>>)] }

SiblingLists ==
    UNION { { [k \in 1..n |-> [name |-> InstanceName(k, kinds[k].validName),
                               Source |-> kinds[k].Source]] :
              kinds \in [1..n -> SiblingKinds] } : n \in 0..MaxSiblings }

\* What b holds: nothing nested, or one instance of a.
NestedLists == { <<>>, <<[name |-> InstanceName(1, TRUE), Source |-> StringValue(RelA)]>> }

SiblingFileSystems ==
    { [f \in FileNames \cup {AbsC} |->
          IF f = AbsC THEN UnparsableContent
          ELSE [parsable |-> TRUE,
                dom |-> [Source |-> NoSource, ContainerEntity |-> "absent",
                         Instances |-> IF f = AbsA THEN siblings ELSE nestedList]]] :
      siblings \in SiblingLists, nestedList \in NestedLists }

SiblingInit ==
    /\ files \in SiblingFileSystems
    /\ templates = <<>>
    /\ links = <<>>
    /\ progressedFilePathsSet = {}
    /\ stack = <<>>
    /\ result = InvalidTemplateId
    /\ request = [kind |-> "none", path |-> <<>>, fault |-> "none", content |-> UnparsableContent]
    /\ pre = [templates |-> <<>>, links |-> <<>>]
    /\ nested = {}
    /\ CacheConstructed
    /\ faults = 0

SiblingNext ==
    \/ LoadTemplateFromFile(RelA)
    \/ LoadNestedInstance
    \/ FinishLoadTemplate

SiblingSpec == SiblingInit /\ [][SiblingNext]_vars

\* The Template whose instance loop created templateId, if any.
ParentOf(templateId) == {e.target : e \in {x \in nested : x.kind = "created" /\ x.id = templateId}}

\* A Template and the Templates above it in the recursion of the current load.
RECURSIVE AncestorChain(_)
AncestorChain(templateId) ==
    {templateId} \cup UNION {AncestorChain(parent) : parent \in ParentOf(templateId)}

ChainPaths(templateId) == {templates[t].filePath : t \in AncestorChain(templateId)}

\* An instance nothing stops from resolving: valid key, a source that names a
\* prefab file which is not being resolved above it.
Resolvable(templateId, instance) ==
    /\ IsValidPrefabPath(instance.name)
    /\ HasSourceString(instance)
    /\ PathAppend(ProjectPath, CanonicalPath(instance.Source.value)) \in DOMAIN files
    /\ files[PathAppend(ProjectPath, CanonicalPath(instance.Source.value))].parsable
    /\ CanonicalPath(instance.Source.value) \notin ChainPaths(templateId)

\* C23: when a load in which a cycle was detected on an instance has returned,
\* each document on the ancestor chain of that instance has its Template, valid
\* and loaded-with-errors, the root's id was returned, and every other
\* instance of those documents that no collaborator failed on and that names
\* a prefab file not on its own ancestor chain has been resolved and linked.
C23_CycleAbortsOnlyItsBranch ==
    Completed =>
        \A c \in nested :
            (c.kind = "cycle" /\ c.onChain) =>
                \A t \in AncestorChain(c.target) :
                    /\ HasTemplate(templates, t)
                    /\ templates[t].isValid /\ templates[t].loadedWithErrors
                    /\ t = RootId => result = t
                    /\ \A k \in 1..Len(templates[t].prefabDom.Instances) :
                           LET instance == templates[t].prefabDom.Instances[k]
                           IN  /\ \E e \in nested : e.target = t /\ e.name = instance.name
                               /\ ( /\ Resolvable(t, instance)
                                    /\ \A e \in nested :
                                           (e.target = t /\ e.name = instance.name)
                                               => e.fault = "none" )
                                  => LinkFrom(GetTemplateIdFromFilePath(templates,
                                                  CanonicalPath(instance.Source.value)),
                                              t, instance.name)

\* The key is no valid path-like name, or "Source" is absent, no string or empty.
InvalidInstance(instance) ==
    \/ ~IsValidPrefabPath(instance.name)
    \/ ~instance.Source.isString
    \/ instance.Source.value = <<>>

\* The instance the innermost call is about to resolve is an invalid one.
AtInvalidInstance ==
    /\ stack # <<>>
    /\ Top.index <= Len(templates[Top.templateId].prefabDom.Instances)
    /\ InvalidInstance(templates[Top.templateId].prefabDom.Instances[Top.index])

\* C26: the step that handles an invalid instance creates no Template and no
\* Link, leaves the progressed paths alone, starts no nested call and moves on
\* to the next instance with the load marked unsuccessful; an instance is
\* recorded as invalid, with no resolution and no Link, exactly if it is an
\* invalid one; and a Template whose resolution has ended has had every
\* instance handled and is loaded-with-errors if one of them was invalid.
C26_InvalidInstanceFailsAlone ==
    /\ [][AtInvalidInstance =>
              /\ templates' = templates
              /\ links' = links
              /\ progressedFilePathsSet' = progressedFilePathsSet
              /\ Len(stack') = Len(stack)
              /\ stack'[Len(stack)].index = Top.index + 1
              /\ ~stack'[Len(stack)].isLoadSuccessful]_vars
    /\ [](\A e \in nested :
              /\ e.kind = "invalidInstance"
                     <=> InvalidInstance(InstanceNamed(templates[e.target].prefabDom, e.name))
              /\ e.kind = "invalidInstance" => /\ e.id = InvalidTemplateId
                                               /\ LinksAnchoredAt(e.target, e.name) = {})
    /\ [](\A t \in 1..Len(templates) :
              (CreatedByThisLoad(t) /\ Finished(t)) =>
                  \A k \in 1..Len(templates[t].prefabDom.Instances) :
                      /\ Processed(t, templates[t].prefabDom.Instances[k].name)
                      /\ InvalidInstance(templates[t].prefabDom.Instances[k])
                             => templates[t].loadedWithErrors)

\* A document with an invalid key and a "Source" that is no string, whose
\* third instance was resolved and linked.
C26_Witness ==
    /\ Completed /\ RootCreated
    /\ \E e1 \in nested : \E e2 \in nested : \E e3 \in nested :
           /\ e1.target = RootId /\ e2.target = RootId /\ e3.target = RootId
           /\ e1.kind = "invalidInstance" /\ ~IsValidPrefabPath(e1.name)
           /\ e2.kind = "invalidInstance" /\ IsValidPrefabPath(e2.name)
           /\ PositionOf(RootId, e1.name) < PositionOf(RootId, e3.name)
           /\ PositionOf(RootId, e2.name) < PositionOf(RootId, e3.name)
           /\ LinkFrom(e3.id, RootId, e3.name)

\* Documents that nest each other, in cycles or more than once, every path in
\* its canonical spelling.
NestingFileSystems ==
    {fs \in SiblingFileSystems :
        /\ Len(fs[AbsA].dom.Instances) <= MaxInstances
        /\ \A k \in 1..Len(fs[AbsA].dom.Instances) :
               /\ ~InvalidInstance(fs[AbsA].dom.Instances[k])
               /\ ~IsAbsolute(fs[AbsA].dom.Instances[k].Source.value)}

TerminationInit ==
    /\ files \in NestingFileSystems
    /\ templates = <<>>
    /\ links = <<>>
    /\ progressedFilePathsSet = {}
    /\ stack = <<>>
    /\ result = InvalidTemplateId
    /\ request = [kind |-> "none", path |-> <<>>, fault |-> "none", content |-> UnparsableContent]
    /\ pre = [templates |-> <<>>, links |-> <<>>]
    /\ nested = {}
    /\ CacheConstructed
    /\ faults = 0

\* The nested calls of a load are made as long as there are any to make.
TerminationSpec ==
    /\ TerminationInit
    /\ [][SiblingNext]_vars
    /\ WF_vars(LoadNestedInstance)
    /\ WF_vars(FinishLoadTemplate)

\* The canonical paths of the documents there are.
DocumentPaths == {CanonicalPath(f) : f \in DOMAIN files}

\* C33: every top-level load call returns, with the invalid id or the id of a
\* Template of the registry; the calls in progress are for pairwise different
\* canonical paths, so that, the innermost call that may fail included, the
\* recursion is never deeper than the number of documents plus one.
C33_LoadTerminates ==
    /\ (stack # <<>>) ~> (stack = <<>>)
    /\ [](Completed => (result = InvalidTemplateId \/ HasTemplate(templates, result)))
    /\ [](\A i \in 1..Len(stack) : \A j \in 1..Len(stack) :
              stack[i].relativePath = stack[j].relativePath => i = j)
    /\ [](Len(stack) + 1 <= Cardinality(DocumentPaths) + 1)

\* A load of documents that nest each other in a cycle and share a document
\* has returned.
C33_Witness ==
    /\ Completed /\ result # InvalidTemplateId
    /\ \E e1 \in nested : \E e2 \in nested : \E e3 \in nested :
           /\ e1.kind = "cycle" /\ e1.onChain /\ e1.target # RootId
           /\ e2.kind = "created" /\ e2.target = RootId
           /\ e3.kind = "memo" /\ e3.target = RootId /\ e3.id = e2.id

----------------------------------------------------------------------------
(* The normalizer passes on their own: SanitizeLoadedTemplate (Expand) and  *)
(* SanitizeSavingTemplate (Strip) applied, one after the other, to a DOM.   *)

LinkIds == {InvalidLinkId, 1}

\* The values the k-th nested instance of a DOM can have: with or without a
\* "LinkId" member.
InstanceValues(k) ==
    LET plain == [name |-> InstanceName(k, TRUE), Source |-> StringValue(RelB)]
    IN  {plain} \cup {WithLinkId(plain, linkId) : linkId \in LinkIds}

NormalizerInstanceLists ==
    UNION { {instances \in [1..n -> UNION {InstanceValues(k) : k \in 1..n}] :
                \A k \in 1..n : instances[k] \in InstanceValues(k)} : n \in 0..MaxInstances }

NormalizerDoms ==
    [Source : {NoSource, RelA},
     ContainerEntity : {"absent", "default", "custom", "malformed", "unstorable"},
     Instances : NormalizerInstanceLists]

\* The loader is idle while the passes are exercised.
LoaderIdle ==
    /\ files = <<>> /\ templates = <<>> /\ links = <<>>
    /\ progressedFilePathsSet = {} /\ stack = <<>>
    /\ pre = [templates |-> <<>>, links |-> <<>>]
    /\ nested = {} /\ faults = 0
    /\ CacheConstructed

NormalizerCall(kind, dom) ==
    [kind |-> kind, path |-> <<>>, fault |-> "none", content |-> [parsable |-> TRUE, dom |-> dom]]

NormalizerInit ==
    /\ LoaderIdle
    /\ \E dom \in NormalizerDoms :
           /\ request = NormalizerCall("none", dom)
           /\ result = [ok |-> TRUE, dom |-> dom]

\* result.dom is the DOM the reference passed to the pass designates.
ApplySanitizeLoadedTemplate ==
    /\ request' = NormalizerCall("Expand", result.dom)
    /\ result' = SanitizeLoadedTemplate(result.dom)
    /\ UNCHANGED <<cacheVars, files, templates, links, progressedFilePathsSet, stack, pre, nested, faults>>

ApplySanitizeSavingTemplate ==
    /\ request' = NormalizerCall("Strip", result.dom)
    /\ result' = SanitizeSavingTemplate(result.dom)
    /\ UNCHANGED <<cacheVars, files, templates, links, progressedFilePathsSet, stack, pre, nested, faults>>

NormalizerNext == ApplySanitizeLoadedTemplate \/ ApplySanitizeSavingTemplate

NormalizerSpec == NormalizerInit /\ [][NormalizerNext]_vars

Expand(dom) == SanitizeLoadedTemplate(dom).dom
Strip(dom) == SanitizeSavingTemplate(dom).dom

\* A valid document: one both passes accept.
ValidDocument(dom) == SanitizeLoadedTemplate(dom).ok /\ SanitizeSavingTemplate(dom).ok

HasLinkIds(dom) ==
    \E k \in 1..Len(dom.Instances) : LinkIdOf(dom.Instances[k]) # InvalidLinkId

DropLinkIds(dom) ==
    [dom EXCEPT !.Instances = [k \in 1..Len(dom.Instances) |-> WithoutLinkId(dom.Instances[k])]]

C18_FailedPassLeavesDocument ==
    request.kind \in {"Expand", "Strip"} =>
        LET d == request.content.dom
            loaded == LoadInstanceFromPrefabDom(d)
            flags == IF request.kind = "Expand" THEN {StoreLinkIds} ELSE {StripDefaultValues}
            stored == StoreInstanceInPrefabDom(loaded.instance, flags)
        IN  /\ result.ok <=> (loaded.ok /\ stored.ok)
            /\ ~result.ok => result.dom = d
            /\ result.ok => result.dom = stored.dom

C18_Witness ==
    /\ request.kind = "Expand" /\ ~result.ok
    /\ request.content.dom.ContainerEntity = "unstorable"
    /\ result.dom = request.content.dom
    /\ StoreInstanceInPrefabDom(LoadInstanceFromPrefabDom(result.dom).instance,
                                {StoreLinkIds}).dom # result.dom

----------------------------------------------------------------------------
(* IsValidPrefabPath on its own, over every short path.                    *)

PathCharacters == {"a", "/", "\\", "*", ":"}

ShortPaths == UNION {[1..n -> PathCharacters] : n \in 0..MaxPathLength}

PathInit ==
    /\ LoaderIdle
    /\ result = FALSE
    /\ \E path \in ShortPaths :
           request = [kind |-> "none", path |-> path, fault |-> "none",
                      content |-> UnparsableContent]

ApplyIsValidPrefabPath ==
    /\ request.kind = "none"
    /\ request' = [request EXCEPT !.kind = "IsValidPrefabPath"]
    /\ result' = IsValidPrefabPath(request.path)
    /\ UNCHANGED <<cacheVars, files, templates, links, progressedFilePathsSet, stack, pre, nested, faults>>

PathNext == ApplyIsValidPrefabPath

PathSpec == PathInit /\ [][PathNext]_vars

\* C19: IsValidPrefabPath answers true exactly for the paths that are not
\* empty, hold no forbidden character and do not end in '/' or '\'; the empty
\* path is answered (false) although it has no last character to look at.
C19_IsValidPrefabPath ==
    request.kind = "IsValidPrefabPath" =>
        LET path == request.path
            n == Len(path)
        IN  /\ result \in BOOLEAN
            /\ result <=> /\ n > 0
                          /\ \A i \in 1..n : path[i] \notin InvalidCharacters
                          /\ \A i \in {n} \ {0} : path[i] \notin {"/", "\\"}
            /\ n = 0 => result = FALSE

C19_Witness ==
    /\ request.kind = "IsValidPrefabPath"
    /\ request.path = <<"a", "/", "a">>
    /\ result = TRUE

----------------------------------------------------------------------------
(* GenerateRelativePath and GetFullPath on their own, over the paths a      *)
(* caller can hand them and every answer of the asset system.              *)

OtherRootFolder == <<"/", "r">>

ResolvePaths ==
    {EmptyPath, RelA, <<"a", "/", "b">>, AbsA, AbsB, ProjectPath, OtherRootFolder \o <<"/", "a">>}

\* Found or not, with any root folder and any relative path, the empty one
\* included.
ResolveLookups ==
    [pathFound : BOOLEAN, rootFolder : {ProjectPath, OtherRootFolder},
     relativePath : {<<>>, RelA, RelB}]

ResolveInit ==
    /\ LoaderIdle
    /\ result = <<>>
    /\ \E path \in ResolvePaths : \E lookup \in ResolveLookups :
           request = [kind |-> "none", path |-> path, fault |-> "none",
                      content |-> UnparsableContent, lookup |-> lookup]

ApplyGenerateRelativePath ==
    /\ request.kind = "none"
    /\ request' = [request EXCEPT !.kind = "GenerateRelativePath"]
    /\ result' = GenerateRelativePath(request.path, request.lookup)
    /\ UNCHANGED <<cacheVars, files, templates, links, progressedFilePathsSet, stack, pre, nested, faults>>

ApplyGetFullPath ==
    /\ request.kind = "none"
    /\ request' = [request EXCEPT !.kind = "GetFullPath"]
    /\ result' = GetFullPath(request.path, request.lookup)
    /\ UNCHANGED <<cacheVars, files, templates, links, progressedFilePathsSet, stack, pre, nested, faults>>

ResolveNext == ApplyGenerateRelativePath \/ ApplyGetFullPath

ResolveSpec == ResolveInit /\ [][ResolveNext]_vars

\* Is path below the project root?
UnderProjectPath(path) ==
    /\ Len(path) > Len(ProjectPath) + 1
    /\ SubSeq(path, 1, Len(ProjectPath) + 1) = ProjectPath \o <<"/">>

\* C34: GenerateRelativePath returns the relative path of the asset system
\* when the asset system found one and it is not empty; otherwise, for an
\* absolute path, the path made relative to the project root (so that the
\* project root joined with it is the path again, for a path below the
\* project root), and, for a relative path, the path itself.
C34_GenerateRelativePath ==
    request.kind = "GenerateRelativePath" =>
        LET path == request.path
            lookup == request.lookup
            answered == lookup.pathFound /\ lookup.relativePath # <<>>
        IN  /\ answered => result = lookup.relativePath
            /\ (~answered /\ IsAbsolute(path))
                   => /\ result = LexicallyRelative(path, ProjectPath)
                      /\ ~IsAbsolute(result)
                      /\ UnderProjectPath(path) => ProjectPath \o <<"/">> \o result = path
            /\ (~answered /\ ~IsAbsolute(path)) => result = path

\* The asset system found the path and gave no relative path for it.
C34_Witness ==
    /\ request.kind = "GenerateRelativePath"
    /\ request.lookup.pathFound /\ request.lookup.relativePath = <<>>
    /\ request.path = AbsB
    /\ result = RelB

\* C35: GetFullPath returns an absolute path as it is, whatever the asset
\* system would answer; for a relative path it returns the root folder joined
\* with the relative path of the asset system when the lookup found the path,
\* and the project root joined with the path when it did not.
C35_GetFullPath ==
    request.kind = "GetFullPath" =>
        LET path == request.path
            lookup == request.lookup
        IN  /\ IsAbsolute(path) => result = path
            /\ (~IsAbsolute(path) /\ lookup.pathFound)
                   => result = lookup.rootFolder \o <<"/">> \o lookup.relativePath
            /\ (~IsAbsolute(path) /\ ~lookup.pathFound)
                   => result = ProjectPath \o <<"/">> \o path

\* An absolute path is returned as it is although the asset system has
\* another answer for it.
C35_Witness ==
    /\ request.kind = "GetFullPath"
    /\ request.path = AbsA
    /\ request.lookup.pathFound
    /\ request.lookup.rootFolder = OtherRootFolder /\ request.lookup.relativePath = RelB
    /\ result = AbsA

----------------------------------------------------------------------------
(* Saving: collapsing a Template into the prefab file format and writing it. *)

\* The orders in which the Links of a Template can be visited.
RECURSIVE LinkOrders(_)
LinkOrders(linkIds) ==
    IF linkIds = {} THEN {<<>>}
    ELSE UNION { {<<linkId>> \o order : order \in LinkOrders(linkIds \ {linkId})} :
                 linkId \in linkIds }

OverwriteInstance(dom, instanceName, linkDom) ==
    [dom EXCEPT !.Instances =
        [k \in 1..Len(dom.Instances) |->
            IF dom.Instances[k].name = instanceName
            THEN InstanceMember(instanceName, linkDom) ELSE dom.Instances[k]]]

EraseSource_Keep(dom) == dom

EraseSource(dom) == [dom EXCEPT !.Source = NoSource]

RECURSIVE CollapseLinks_SkipsBadLinks(_, _, _)
CollapseLinks_SkipsBadLinks(output, order, lnks) ==
    IF order = <<>> THEN [ok |-> TRUE, error |-> "none", dom |-> output]
    ELSE LET linkId == Head(order)
         IN  IF \/ ~FindLink(lnks, linkId)
                \/ ~lnks[linkId].isValid
                \/ InstanceIndexes(output, lnks[linkId].instanceName) = {}
             THEN CollapseLinks_SkipsBadLinks(output, Tail(order), lnks)
             ELSE CollapseLinks_SkipsBadLinks(
                      OverwriteInstance(output, lnks[linkId].instanceName,
                                        lnks[linkId].linkDom),
                      Tail(order), lnks)

\* The loop over the Links of the Template being copied.
RECURSIVE CollapseLinks(_, _, _)
CollapseLinks(output, order, lnks) ==
    IF order = <<>> THEN [ok |-> TRUE, error |-> "none", dom |-> output]
    ELSE LET linkId == Head(order)
         IN  IF ~FindLink(lnks, linkId)
             THEN [ok |-> FALSE, error |-> "LinkNotFound", dom |-> output]
             ELSE IF ~lnks[linkId].isValid
             THEN [ok |-> FALSE, error |-> "LinkInvalid", dom |-> output]
             ELSE IF InstanceIndexes(output, lnks[linkId].instanceName) = {}
             THEN [ok |-> FALSE, error |-> "InstanceLocationMissing", dom |-> output]
             ELSE CollapseLinks(OverwriteInstance(output, lnks[linkId].instanceName,
                                                  lnks[linkId].linkDom),
                                Tail(order), lnks)

CopyTemplateIntoPrefabFileFormat_NoStrip(template, lnks, order) ==
    LET collapsed == CollapseLinks(template.prefabDom, order, lnks)
    IN  IF ~collapsed.ok THEN collapsed
        ELSE [collapsed EXCEPT !.dom = EraseSource(collapsed.dom)]

\* The result of SanitizeSavingTemplate is not looked at: when the pass fails
\* the copy is collapsed as it is.
CopyTemplateIntoPrefabFileFormat(template, lnks, order) ==
    LET output == SanitizeSavingTemplate(template.prefabDom).dom
        collapsed == CollapseLinks(output, order, lnks)
    IN  IF ~collapsed.ok THEN collapsed
        ELSE [collapsed EXCEPT !.dom = EraseSource(collapsed.dom)]

NoDomAndFilepath(error) ==
    [ok |-> FALSE, error |-> error, dom |-> UnparsableContent.dom, filePath |-> <<>>]

StoreTemplateIntoFileFormat(tpls, lnks, templateId, order) ==
    IF ~HasTemplate(tpls, templateId) THEN NoDomAndFilepath("NotFound")
    ELSE IF ~tpls[templateId].isValid THEN NoDomAndFilepath("InvalidTemplate")
    ELSE LET collapsed == CopyTemplateIntoPrefabFileFormat(tpls[templateId], lnks, order)
         IN  IF ~collapsed.ok THEN NoDomAndFilepath(collapsed.error)
             ELSE [ok |-> TRUE, error |-> "none", dom |-> collapsed.dom,
                   filePath |-> tpls[templateId].filePath]

\* The text of a DOM, and a file system after the text was written to a file.
WriteJsonToString(dom) == [parsable |-> TRUE, dom |-> dom]

WriteJsonFile(fs, dom, fullPath) ==
    [f \in DOMAIN fs \cup {fullPath} |-> IF f = fullPath THEN WriteJsonToString(dom) ELSE fs[f]]

\* What a save call returns and leaves behind.
SaveResult(ok, error, wrote, fs, tpls, output) ==
    [ok |-> ok, error |-> error, wrote |-> wrote, files |-> fs, templates |-> tpls,
     output |-> output]

SaveFailed_ClearsDirtyFlag(tpls, fs, templateId, error) ==
    SaveResult(FALSE, error, FALSE, fs, SetTemplateDirtyFlag(tpls, templateId, FALSE),
               UnparsableContent)

SaveFailed(tpls, fs, templateId, error) ==
    SaveResult(FALSE, error, FALSE, fs, tpls, UnparsableContent)

SaveTemplate_Result_InPlace(tpls, lnks, fs, templateId, order, lookup, fault) ==
    LET domAndFilepath == StoreTemplateIntoFileFormat(tpls, lnks, templateId, order)
    IN  IF ~domAndFilepath.ok THEN SaveFailed(tpls, fs, templateId, domAndFilepath.error)
        ELSE IF fault = "write" THEN SaveFailed(tpls, fs, templateId, "WriteError")
        ELSE SaveResult(TRUE, "none", TRUE,
                        WriteJsonFile(fs, domAndFilepath.dom,
                                      GetFullPath(domAndFilepath.filePath, lookup)),
                        [SetTemplateDirtyFlag(tpls, templateId, FALSE)
                            EXCEPT ![templateId].prefabDom = domAndFilepath.dom],
                        WriteJsonToString(domAndFilepath.dom))

SaveTemplate_Result(tpls, lnks, fs, templateId, order, lookup, fault) ==
    LET domAndFilepath == StoreTemplateIntoFileFormat(tpls, lnks, templateId, order)
    IN  IF ~domAndFilepath.ok THEN SaveFailed(tpls, fs, templateId, domAndFilepath.error)
        ELSE IF fault = "write" THEN SaveFailed(tpls, fs, templateId, "WriteError")
        ELSE SaveResult(TRUE, "none", TRUE,
                        WriteJsonFile(fs, domAndFilepath.dom,
                                      GetFullPath(domAndFilepath.filePath, lookup)),
                        SetTemplateDirtyFlag(tpls, templateId, FALSE),
                        WriteJsonToString(domAndFilepath.dom))

PathIdentityMatches_Always(relativePath, filePath) == TRUE

PathIdentityMatches(relativePath, filePath) == relativePath = filePath

SaveTemplateToFile_Result(tpls, lnks, fs, templateId, absolutePath, order, lookup, fault) ==
    LET domAndFilepath == StoreTemplateIntoFileFormat(tpls, lnks, templateId, order)
        relativePath == GenerateRelativePath(absolutePath, lookup)
    IN  IF ~domAndFilepath.ok THEN SaveFailed(tpls, fs, templateId, domAndFilepath.error)
        ELSE IF ~PathIdentityMatches(relativePath, domAndFilepath.filePath)
        THEN SaveFailed(tpls, fs, templateId, "PathIdentityMismatch")
        ELSE IF fault = "write" THEN SaveFailed(tpls, fs, templateId, "WriteError")
        ELSE SaveResult(TRUE, "none", TRUE,
                        WriteJsonFile(fs, domAndFilepath.dom, absolutePath),
                        SetTemplateDirtyFlag(tpls, templateId, FALSE),
                        WriteJsonToString(domAndFilepath.dom))

SaveTemplateToString_ClearsDirtyFlag(tpls, lnks, fs, templateId, order, fault) ==
    LET domAndFilepath == StoreTemplateIntoFileFormat(tpls, lnks, templateId, order)
    IN  IF ~domAndFilepath.ok THEN SaveFailed(tpls, fs, templateId, domAndFilepath.error)
        ELSE IF fault = "serialize" THEN SaveFailed(tpls, fs, templateId, "SerializeError")
        ELSE SaveResult(TRUE, "none", FALSE, fs,
                        SetTemplateDirtyFlag(tpls, templateId, FALSE),
                        WriteJsonToString(domAndFilepath.dom))

SaveTemplateToString_Result(tpls, lnks, fs, templateId, order, fault) ==
    LET domAndFilepath == StoreTemplateIntoFileFormat(tpls, lnks, templateId, order)
    IN  IF ~domAndFilepath.ok THEN SaveFailed(tpls, fs, templateId, domAndFilepath.error)
        ELSE IF fault = "serialize" THEN SaveFailed(tpls, fs, templateId, "SerializeError")
        ELSE SaveResult(TRUE, "none", FALSE, fs, tpls, WriteJsonToString(domAndFilepath.dom))

\* The prefab files of the save scenarios: a nests b any number of times, b is a
\* leaf whose data may be explicit defaults, custom, malformed or unstorable.
SaveInstanceLists ==
    { [k \in 1..n |-> [name |-> InstanceName(k, TRUE), Source |-> StringValue(RelB)]] :
      n \in 0..(MaxInstances - 1) }

LeafDoms ==
    [Source : {NoSource},
     ContainerEntity : {"absent", "default", "custom", "malformed", "unstorable"},
     Instances : {<<>>}]

SaveFileSystems ==
    { [f \in FileNames |->
          [parsable |-> TRUE,
           dom |-> IF f = AbsA
                   THEN [Source |-> NoSource, ContainerEntity |-> "absent",
                         Instances |-> instances]
                   ELSE leaf]] :
      instances \in SaveInstanceLists, leaf \in LeafDoms }

SaveFilePaths == {RelA, RelB}
SaveAbsolutePaths == {AbsA, AbsB}

SaveInit ==
    /\ files \in SaveFileSystems
    /\ templates = <<>>
    /\ links = <<>>
    /\ progressedFilePathsSet = {}
    /\ stack = <<>>
    /\ result = InvalidTemplateId
    /\ request = [kind |-> "none", path |-> <<>>, fault |-> "none", content |-> UnparsableContent]
    /\ pre = [templates |-> <<>>, links |-> <<>>]
    /\ nested = {}
    /\ CacheConstructed
    /\ faults = 0

\* A save call as the model records it, and what it leaves behind.
SaveCall(kind, templateId, path, relativePath, order, fault, r) ==
    /\ fault # "none" => r.error \in {"WriteError", "SerializeError"}
    /\ request' = [kind |-> kind, path |-> path, fault |-> fault, content |-> r.output,
                   templateId |-> templateId, relativePath |-> relativePath,
                   order |-> order, error |-> r.error, wrote |-> r.wrote]
    /\ pre' = [templates |-> templates, links |-> links, files |-> files]
    /\ result' = r.ok
    /\ files' = r.files
    /\ templates' = r.templates
    /\ faults' = IF fault = "none" THEN faults ELSE faults + 1
    /\ UNCHANGED <<cacheVars, links, progressedFilePathsSet, stack, nested>>

\* The ids a caller can ask to save: those of the registry and one it has not.
SaveTemplateIds == 1..(Cardinality(FileNames) + 1)

LinksOf(templateId) == IF HasTemplate(templates, templateId) THEN templates[templateId].links ELSE {}

FilePathOf(templateId) ==
    IF HasTemplate(templates, templateId) THEN templates[templateId].filePath ELSE <<>>

SaveTemplate(templateId) ==
    /\ stack = <<>>
    /\ templateId <= Len(templates) + 1
    /\ \E fault \in Faults({"write"}) : \E order \in LinkOrders(LinksOf(templateId)) :
       \E r \in { SaveTemplate_Result(templates, links, files, templateId, order, lookup, fault) :
                   lookup \in AssetSystemLookups(FilePathOf(templateId)) } :
          SaveCall("SaveTemplate", templateId, <<>>, <<>>, order, fault, r)

SaveTemplateToFile(templateId, absolutePath) ==
    /\ stack = <<>>
    /\ templateId <= Len(templates) + 1
    /\ \E fault \in Faults({"write"}) : \E order \in LinkOrders(LinksOf(templateId)) :
       \E lookup \in AssetSystemLookups(absolutePath) :
          SaveCall("SaveTemplateToFile", templateId, absolutePath,
                   GenerateRelativePath(absolutePath, lookup), order, fault,
                   SaveTemplateToFile_Result(templates, links, files, templateId,
                                             absolutePath, order, lookup, fault))

SaveTemplateToString(templateId) ==
    /\ stack = <<>>
    /\ templateId <= Len(templates) + 1
    /\ \E fault \in Faults({"serialize"}) : \E order \in LinkOrders(LinksOf(templateId)) :
          SaveCall("SaveTemplateToString", templateId, <<>>, <<>>, order, fault,
                   SaveTemplateToString_Result(templates, links, files, templateId, order,
                                               fault))

\* An edit of a Template, made outside the loader, marks it dirty.
MarkTemplateDirty(templateId) ==
    /\ stack = <<>>
    /\ HasTemplate(templates, templateId)
    /\ ~templates[templateId].dirty
    /\ templates' = SetTemplateDirtyFlag(templates, templateId, TRUE)
    /\ request' = [kind |-> "SetTemplateDirtyFlag", path |-> <<>>, fault |-> "none",
                   content |-> UnparsableContent]
    /\ UNCHANGED <<cacheVars, files, links, progressedFilePathsSet, stack, result, pre, nested, faults>>

SaveNext ==
    \/ \E filePath \in SaveFilePaths : LoadTemplateFromFile(filePath)
    \/ LoadNestedInstance
    \/ FinishLoadTemplate
    \/ \E templateId \in SaveTemplateIds : MarkTemplateDirty(templateId)
    \/ \E templateId \in SaveTemplateIds : SaveTemplate(templateId)
    \/ \E templateId \in SaveTemplateIds : \E absolutePath \in SaveAbsolutePaths :
           SaveTemplateToFile(templateId, absolutePath)
    \/ \E templateId \in SaveTemplateIds : SaveTemplateToString(templateId)

SaveSpec == SaveInit /\ [][SaveNext]_vars

----------------------------------------------------------------------------
(* Properties of saving.                                                   *)

SaveKinds == {"SaveTemplate", "SaveTemplateToFile", "SaveTemplateToString"}

\* What StoreTemplateIntoFileFormat made of the Template of the last save call.
SavedDomAndFilepath ==
    StoreTemplateIntoFileFormat(pre.templates, pre.links, request.templateId, request.order)

\* C11: for a leaf document that has just been loaded without errors, the
\* collapse of its Template succeeds and yields Strip(document): neither the
\* injected "Source" nor the defaults the load filled in are left in it.
C11_LeafRoundTrip ==
    ( /\ request.kind = "file" /\ Completed /\ RootCreated /\ result = RootId
      /\ request.content.dom.Instances = <<>>
      /\ ~templates[RootId].loadedWithErrors )
    => \A order \in LinkOrders(templates[RootId].links) :
           LET collapsed == CopyTemplateIntoPrefabFileFormat(templates[RootId], links, order)
           IN  /\ collapsed.ok
               /\ collapsed.dom = Strip(request.content.dom)

C11_Witness ==
    /\ request.kind = "file" /\ Completed /\ RootCreated /\ result = RootId
    /\ request.content.dom.Instances = <<>>
    /\ request.content.dom.ContainerEntity = "default"
    /\ ~templates[RootId].loadedWithErrors
    /\ templates[RootId].prefabDom.Source = RelB
    /\ Strip(request.content.dom) # request.content.dom

\* C13: SaveTemplateToFile with an absolute path whose relative path is not
\* the file path of the Template returns false (for that reason, once the
\* Template could be collapsed), writes no file and leaves the Templates, their
\* dirty flags included, as they were.
C13_PathIdentityMismatch ==
    ( /\ request.kind = "SaveTemplateToFile"
      /\ HasTemplate(pre.templates, request.templateId)
      /\ request.relativePath # pre.templates[request.templateId].filePath )
    => /\ result = FALSE
       /\ SavedDomAndFilepath.ok => request.error = "PathIdentityMismatch"
       /\ ~request.wrote
       /\ files = pre.files
       /\ templates = pre.templates

C13_Witness ==
    /\ request.kind = "SaveTemplateToFile"
    /\ request.error = "PathIdentityMismatch"
    /\ request.path = AbsB
    /\ pre.templates[request.templateId].filePath = RelA
    /\ templates[request.templateId].dirty
    /\ result = FALSE

\* C14: SaveTemplate and SaveTemplateToFile return true, and set the dirty
\* flag of the Template (and of no other) to false, exactly when the Template
\* was collapsed, the path matched (SaveTemplateToFile) and the file was
\* written; otherwise they return false and leave every dirty flag and every
\* file as it was.
C14_DirtyFlagClearedOnlyOnSuccess ==
    request.kind \in {"SaveTemplate", "SaveTemplateToFile"} =>
        LET id == request.templateId
            matches == request.kind = "SaveTemplateToFile"
                           => request.relativePath = SavedDomAndFilepath.filePath
            success == SavedDomAndFilepath.ok /\ matches /\ request.fault # "write"
        IN  /\ result = success
            /\ success => /\ templates = [pre.templates EXCEPT ![id].dirty = FALSE]
                           /\ request.wrote
            /\ ~success => /\ templates = pre.templates
                            /\ ~request.wrote
                            /\ files = pre.files

C14_Witness ==
    /\ request.kind = "SaveTemplate" /\ result = TRUE
    /\ pre.templates[request.templateId].dirty
    /\ ~templates[request.templateId].dirty
    /\ \E other \in 1..Len(templates) : templates[other].dirty

\* C15: SaveTemplateToString writes no file and leaves every Template, dirty
\* flags included, as it was, whether it returns true or false; when it returns
\* true its output is the text of the collapsed Template.
C15_SaveToStringChangesNothing ==
    request.kind = "SaveTemplateToString" =>
        /\ ~request.wrote
        /\ files = pre.files
        /\ templates = pre.templates
        /\ result = (SavedDomAndFilepath.ok /\ request.fault # "serialize")
        /\ result = TRUE =>
               request.content =
                   WriteJsonToString(CopyTemplateIntoPrefabFileFormat(
                       pre.templates[request.templateId], pre.links, request.order).dom)

C15_Witness ==
    /\ request.kind = "SaveTemplateToString" /\ result = TRUE
    /\ templates[request.templateId].dirty
    /\ templates[request.templateId].links # {}
    /\ request.content.dom # templates[request.templateId].prefabDom

\* C16: no collapsed document has a top-level "Source": not the result of a
\* successful collapse of any Template of the registry, not the text a save
\* call returned, not any prefab file.
C16_SourceIsNeverPersisted ==
    /\ \A id \in 1..Len(templates) : \A order \in LinkOrders(templates[id].links) :
           LET collapsed == CopyTemplateIntoPrefabFileFormat(templates[id], links, order)
           IN  collapsed.ok => collapsed.dom.Source = NoSource
    /\ \A f \in DOMAIN files : files[f].dom.Source = NoSource
    /\ (request.kind \in SaveKinds /\ result = TRUE) => request.content.dom.Source = NoSource

C16_Witness ==
    /\ request.kind = "SaveTemplateToFile" /\ result = TRUE
    /\ pre.templates[request.templateId].prefabDom.Source = RelA
    /\ pre.templates[request.templateId].links # {}
    /\ files[request.path] = request.content
    /\ request.wrote

\* C29: a save call on a Template whose document the Strip pass fails on
\* returns false, writes no file, gives no text of the un-stripped document
\* and leaves the Templates, dirty flags included, as they were.
C29_StripFailureFailsSave ==
    ( /\ request.kind \in SaveKinds
      /\ HasTemplate(pre.templates, request.templateId)
      /\ ~SanitizeSavingTemplate(pre.templates[request.templateId].prefabDom).ok )
    => /\ result = FALSE
       /\ ~SavedDomAndFilepath.ok
       /\ ~request.wrote
       /\ files = pre.files
       /\ templates = pre.templates

\* The instances of a Template that one of its Links is anchored at.
LinkedInstanceNames(tpls, lnks, templateId) ==
    {lnks[l].instanceName : l \in tpls[templateId].links}

\* C30: when a save call has collapsed a Template, the Strip pass on the
\* Template's document succeeded and, in the document the call produced, the
\* value of every instance a Link of the Template is anchored at is the link
\* document of that Link, every other instance and the data outside "Instances"
\* are those of the Strip of the Template's document, "Source" is gone, and
\* visiting the Links in any other order gives the same document.
C30_CollapsedDocument ==
    (request.kind \in SaveKinds /\ result = TRUE) =>
        LET id == request.templateId
            template == pre.templates[id]
            stripped == SanitizeSavingTemplate(template.prefabDom)
            output == request.content.dom
        IN  /\ stripped.ok
            /\ \A l \in template.links :
                   InstanceValue(InstanceNamed(output, pre.links[l].instanceName))
                       = pre.links[l].linkDom
            /\ Len(output.Instances) = Len(stripped.dom.Instances)
            /\ \A k \in 1..Len(output.Instances) :
                   /\ output.Instances[k].name = stripped.dom.Instances[k].name
                   /\ output.Instances[k].name
                          \notin LinkedInstanceNames(pre.templates, pre.links, id)
                      => output.Instances[k] = stripped.dom.Instances[k]
            /\ output.ContainerEntity = stripped.dom.ContainerEntity
            /\ output.Source = NoSource
            /\ \A order \in LinkOrders(template.links) :
                   CopyTemplateIntoPrefabFileFormat(template, pre.links, order).dom = output

\* C32: a save call, whether it returns true or false, leaves the Links and,
\* of every Template, the document, the Link ids, the file path and the
\* loaded-with-errors flag as they were, so that collapsing the Template again
\* gives what the call got.
C32_SaveWorksOnACopy ==
    request.kind \in SaveKinds =>
        /\ links = pre.links
        /\ Len(templates) = Len(pre.templates)
        /\ \A t \in 1..Len(templates) :
               /\ templates[t].prefabDom = pre.templates[t].prefabDom
               /\ templates[t].links = pre.templates[t].links
               /\ templates[t].filePath = pre.templates[t].filePath
               /\ templates[t].loadedWithErrors = pre.templates[t].loadedWithErrors
               /\ templates[t].isValid = pre.templates[t].isValid
        /\ StoreTemplateIntoFileFormat(templates, links, request.templateId, request.order)
               = SavedDomAndFilepath
        /\ result = TRUE =>
               \A order \in LinkOrders(templates[request.templateId].links) :
                   request.content =
                       WriteJsonToString(StoreTemplateIntoFileFormat(
                           templates, links, request.templateId, order).dom)

\* A Template with a Link was saved to its file: its document still has its
\* "Source", its defaults and the expanded instance, and is not what was written.
C32_Witness ==
    /\ request.kind = "SaveTemplate" /\ result = TRUE /\ request.wrote
    /\ templates[request.templateId].links # {}
    /\ templates[request.templateId].prefabDom.Source = RelA
    /\ templates[request.templateId].prefabDom.ContainerEntity = "default"
    /\ "LinkId" \in DOMAIN templates[request.templateId].prefabDom.Instances[1]
    /\ request.content.dom.Source = NoSource
    /\ request.content.dom.ContainerEntity = "absent"
    /\ "LinkId" \notin DOMAIN request.content.dom.Instances[1]

----------------------------------------------------------------------------
(* Saving from a registry that was changed outside the loader: a Template   *)
(* or a Link made invalid, a Link removed while its Template still lists    *)
(* it, an instance removed from a document while its Link remains.          *)

RegistryEdit(tpls, lnks) ==
    /\ stack = <<>>
    /\ faults < MaxFaults
    /\ templates' = tpls
    /\ links' = lnks
    /\ faults' = faults + 1
    /\ request' = [kind |-> "RegistryEdit", path |-> <<>>, fault |-> "none",
                   content |-> UnparsableContent]
    /\ UNCHANGED <<cacheVars, files, progressedFilePathsSet, stack, result, pre, nested>>

InvalidateTemplate(templateId) ==
    /\ HasTemplate(templates, templateId)
    /\ templates[templateId].isValid
    /\ RegistryEdit([templates EXCEPT ![templateId].isValid = FALSE], links)

InvalidateLink(linkId) ==
    /\ FindLink(links, linkId)
    /\ links[linkId].isValid
    /\ RegistryEdit(templates, [links EXCEPT ![linkId].isValid = FALSE])

\* The registry forgets its newest Link.
RemoveLink ==
    /\ links # <<>>
    /\ RegistryEdit(templates, SubSeq(links, 1, Len(links) - 1))

\* The first nested instance is taken out of the document of a Template.
RemoveInstance(templateId) ==
    /\ HasTemplate(templates, templateId)
    /\ templates[templateId].prefabDom.Instances # <<>>
    /\ RegistryEdit([templates EXCEPT ![templateId].prefabDom.Instances = Tail(@)], links)

SaveLinkIds == 1..MaxInstances

\* a nests b up to MaxInstances times, b is a leaf.
RegistryFileSystems ==
    { [f \in FileNames |->
          [parsable |-> TRUE,
           dom |-> [Source |-> NoSource, ContainerEntity |-> "absent",
                    Instances |-> IF f = AbsA
                                  THEN [k \in 1..n |-> [name |-> InstanceName(k, TRUE),
                                                        Source |-> StringValue(RelB)]]
                                  ELSE <<>>]]] :
      n \in 0..MaxInstances }

RegistryInit ==
    /\ files \in RegistryFileSystems
    /\ templates = <<>>
    /\ links = <<>>
    /\ progressedFilePathsSet = {}
    /\ stack = <<>>
    /\ result = InvalidTemplateId
    /\ request = [kind |-> "none", path |-> <<>>, fault |-> "none", content |-> UnparsableContent]
    /\ pre = [templates |-> <<>>, links |-> <<>>]
    /\ nested = {}
    /\ CacheConstructed
    /\ faults = 0

RegistryNext ==
    \/ LoadTemplateFromFile(RelA)
    \/ LoadNestedInstance
    \/ FinishLoadTemplate
    \/ \E templateId \in SaveTemplateIds : MarkTemplateDirty(templateId)
    \/ \E templateId \in SaveTemplateIds : InvalidateTemplate(templateId)
    \/ \E linkId \in SaveLinkIds : InvalidateLink(linkId)
    \/ RemoveLink
    \/ \E templateId \in SaveTemplateIds : RemoveInstance(templateId)
    \/ \E templateId \in SaveTemplateIds : SaveTemplate(templateId)
    \/ \E templateId \in SaveTemplateIds : \E absolutePath \in SaveAbsolutePaths :
           SaveTemplateToFile(templateId, absolutePath)
    \/ \E templateId \in SaveTemplateIds : SaveTemplateToString(templateId)

RegistrySpec == RegistryInit /\ [][RegistryNext]_vars

\* Why the collapse of the Template of the last save call cannot succeed, if
\* it cannot.
CollapseFailures ==
    LET id == request.templateId
        template == pre.templates[id]
    IN  IF ~HasTemplate(pre.templates, id) THEN {"NotFound"}
        ELSE IF ~template.isValid THEN {"InvalidTemplate"}
        ELSE {"LinkNotFound" : l \in {l \in template.links : l \notin 1..Len(pre.links)}}
             \cup {"LinkInvalid" : l \in {l \in template.links :
                                              l \in 1..Len(pre.links) /\ ~pre.links[l].isValid}}
             \cup {"InstanceLocationMissing" :
                      l \in {l \in template.links :
                                 /\ l \in 1..Len(pre.links)
                                 /\ \A k \in 1..Len(template.prefabDom.Instances) :
                                        template.prefabDom.Instances[k].name
                                            # pre.links[l].instanceName}}

\* C31: a save call on a Template that is not in the registry or is invalid, or
\* one of whose Links is not found, is invalid or is anchored at an instance
\* the document does not have, returns false for one of those reasons, gives
\* no document, writes no file and leaves every Template, dirty flags
\* included, as it was.
C31_CollapseFailures ==
    (request.kind \in SaveKinds /\ CollapseFailures # {}) =>
        /\ result = FALSE
        /\ request.error \in CollapseFailures
        /\ request.content = UnparsableContent
        /\ ~request.wrote
        /\ files = pre.files
        /\ templates = pre.templates

\* A dirty Template with two Links, the second of them invalid, was not saved.
C31_Witness ==
    /\ request.kind = "SaveTemplate" /\ result = FALSE
    /\ request.error = "LinkInvalid"
    /\ templates[request.templateId].dirty
    /\ \E l1 \in templates[request.templateId].links :
       \E l2 \in templates[request.templateId].links :
           l1 < l2 /\ links[l1].isValid /\ ~links[l2].isValid

----------------------------------------------------------------------------
(* EditorVisibleEntityDataCache: the calls that fill the cache, the         *)
(* notification handlers and the destructor.                               *)

MaxCalls == 3
MaxEntityDatas == 4

EntityIds == {1, 2}

\* The lists of entity ids a caller or the viewport hands over: any order, no
\* id twice.
EntityIdLists ==
    {list \in UNION {[1..n -> EntityIds] : n \in 0..Cardinality(EntityIds)} :
        \A i \in 1..Len(list) : \A j \in 1..Len(list) : list[i] = list[j] => i = j}

\* What the editor answers when it is asked about an entity.
EntityInfos ==
    {[visible |-> FALSE, locked |-> FALSE, iconHidden |-> FALSE,
      worldFromLocal |-> "Identity", selected |-> FALSE],
     [visible |-> TRUE, locked |-> TRUE, iconHidden |-> TRUE,
      worldFromLocal |-> "Moved", selected |-> TRUE]}

\* The EntityData made of the answers; m_accent keeps its default.
EntityDataFromEntityId(entityId, info) ==
    [m_worldFromLocal |-> info.worldFromLocal, m_entityId |-> entityId, m_accent |-> "None",
     m_locked |-> info.locked, m_visible |-> info.visible, m_selected |-> info.selected,
     m_iconHidden |-> info.iconHidden]

EntityIdListsEqual(lhs, rhs) == lhs = rhs

RECURSIVE SortEntityIds(_)
SortEntityIds(ids) ==
    IF ids = <<>> THEN <<>>
    ELSE LET i == CHOOSE i \in 1..Len(ids) : \A j \in 1..Len(ids) : ids[i] <= ids[j]
         IN  <<ids[i]>> \o SortEntityIds(SubSeq(ids, 1, i - 1) \o SubSeq(ids, i + 1, Len(ids)))

RECURSIVE SortEntityDatas(_)
\* AZStd::sort by m_entityId: the sort is not stable, so entries of one id
\* come out in any order.
SortEntityDatas(datas) ==
    IF datas = <<>> THEN {<<>>}
    ELSE UNION {{<<datas[i]>> \o rest :
                    rest \in SortEntityDatas(SubSeq(datas, 1, i - 1)
                                                \o SubSeq(datas, i + 1, Len(datas)))} :
                   i \in {i \in 1..Len(datas) :
                             \A j \in 1..Len(datas) : datas[i].m_entityId <= datas[j].m_entityId}}

RECURSIVE AddedEntityIds(_, _)
\* std::set_difference of the sorted ids and the sorted cached entries.
AddedEntityIds(ids, datas) ==
    IF ids = <<>> THEN <<>>
    ELSE IF datas = <<>> THEN ids
    ELSE IF Head(ids) < Head(datas).m_entityId
         THEN <<Head(ids)>> \o AddedEntityIds(Tail(ids), datas)
    ELSE IF Head(datas).m_entityId < Head(ids) THEN AddedEntityIds(ids, Tail(datas))
    ELSE AddedEntityIds(Tail(ids), Tail(datas))

RECURSIVE RemovedEntityDatas(_, _)
\* std::set_difference of the sorted cached entries and the sorted ids.
RemovedEntityDatas(datas, ids) ==
    IF datas = <<>> THEN <<>>
    ELSE IF ids = <<>> THEN datas
    ELSE IF Head(datas).m_entityId < Head(ids)
         THEN <<Head(datas)>> \o RemovedEntityDatas(Tail(datas), ids)
    ELSE IF Head(ids) < Head(datas).m_entityId THEN RemovedEntityDatas(datas, Tail(ids))
    ELSE RemovedEntityDatas(Tail(datas), Tail(ids))

\* The erase of the remove_if: an entry goes when an entry of its id is among
\* removed.
RemoveIf(datas, removed) ==
    SelectSeq(datas, LAMBDA entityData :
                         \A i \in 1..Len(removed) : removed[i].m_entityId # entityData.m_entityId)

NoIndex == 0

GetVisibleEntityIndexFromId_LowerBoundOnly(datas, entityId) ==
    LET first == Cardinality({i \in 1..Len(datas) : datas[i].m_entityId < entityId}) + 1
    IN  IF first <= Len(datas) THEN first ELSE NoIndex

\* std::equal_range over the sorted entries: the first index of the id, if
\* the range is not empty.
GetVisibleEntityIndexFromId(datas, entityId) ==
    LET first == Cardinality({i \in 1..Len(datas) : datas[i].m_entityId < entityId}) + 1
        second == Cardinality({i \in 1..Len(datas) : datas[i].m_entityId <= entityId}) + 1
    IN  IF first # second THEN first ELSE NoIndex

\* The cache is there to be called, and the calls are not used up.
CacheCallable == cacheCall.kind # "~EditorVisibleEntityDataCache" /\ cacheCalls < MaxCalls

AddEntityIds(entityIds, info) ==
    /\ CacheCallable
    /\ LET visibleEntityIds == m_visibleEntityIds \o entityIds
           pushed == m_visibleEntityDatas \o
                        [i \in 1..Len(visibleEntityIds) |->
                            EntityDataFromEntityId(visibleEntityIds[i], info)]
       IN  /\ Len(pushed) <= MaxEntityDatas
           /\ m_visibleEntityIds' = visibleEntityIds
           /\ m_visibleEntityDatas' \in SortEntityDatas(pushed)
    /\ cacheCall' = [kind |-> "AddEntityIds", entityIds |-> entityIds, info |-> info]
    /\ cacheCalls' = cacheCalls + 1
    /\ UNCHANGED <<loaderVars, m_prevVisibleEntityIds, connectedBuses>>

CalculateVisibleEntityDatas(nextVisibleEntityIds, info) ==
    /\ CacheCallable
    /\ IF ~EntityIdListsEqual(m_prevVisibleEntityIds, nextVisibleEntityIds)
       THEN LET visibleEntityIds == SortEntityIds(nextVisibleEntityIds)
                added == AddedEntityIds(visibleEntityIds, m_visibleEntityDatas)
                removed == RemovedEntityDatas(m_visibleEntityDatas, visibleEntityIds)
                kept == RemoveIf(m_visibleEntityDatas, removed)
                pushed == kept \o [i \in 1..Len(added) |-> EntityDataFromEntityId(added[i], info)]
            IN  /\ m_visibleEntityIds' = visibleEntityIds
                /\ m_prevVisibleEntityIds' = nextVisibleEntityIds
                /\ m_visibleEntityDatas' \in SortEntityDatas(pushed)
       ELSE UNCHANGED <<m_visibleEntityIds, m_prevVisibleEntityIds, m_visibleEntityDatas>>
    /\ cacheCall' = [kind |-> "CalculateVisibleEntityDatas",
                     entityIds |-> nextVisibleEntityIds, info |-> info]
    /\ cacheCalls' = cacheCalls + 1
    /\ UNCHANGED <<loaderVars, connectedBuses>>

AfterUndoRedo(info) ==
    /\ CacheCallable
    /\ "ToolsApplicationNotificationBus" \in connectedBuses
    /\ m_visibleEntityDatas' =
           [i \in 1..Len(m_visibleEntityDatas) |->
               EntityDataFromEntityId(m_visibleEntityDatas[i].m_entityId, info)]
    /\ cacheCall' = [kind |-> "AfterUndoRedo", info |-> info]
    /\ cacheCalls' = cacheCalls + 1
    /\ UNCHANGED <<loaderVars, m_visibleEntityIds, m_prevVisibleEntityIds, connectedBuses>>

\* A handler that is called for entityId on bus and stores value in field.
Notified(kind, bus, entityId, field, value) ==
    /\ CacheCallable
    /\ bus \in connectedBuses
    /\ LET entityIndex == GetVisibleEntityIndexFromId(m_visibleEntityDatas, entityId)
       IN  IF entityIndex # NoIndex
           THEN m_visibleEntityDatas' = [m_visibleEntityDatas EXCEPT ![entityIndex][field] = value]
           ELSE UNCHANGED m_visibleEntityDatas
    /\ cacheCall' = [kind |-> kind, entityId |-> entityId, field |-> field, value |-> value]
    /\ cacheCalls' = cacheCalls + 1
    /\ UNCHANGED <<loaderVars, m_visibleEntityIds, m_prevVisibleEntityIds, connectedBuses>>

OnEntityVisibilityChanged(entityId, visibility) ==
    Notified("OnEntityVisibilityChanged", "EditorEntityVisibilityNotificationBus", entityId,
             "m_visible", visibility)

OnEntityLockChanged(entityId, locked) ==
    Notified("OnEntityLockChanged", "EditorEntityLockComponentNotificationBus", entityId,
             "m_locked", locked)

OnTransformChanged(entityId, world) ==
    Notified("OnTransformChanged", "TransformNotificationBus", entityId, "m_worldFromLocal", world)

OnAccentTypeChanged(entityId, accent) ==
    Notified("OnAccentTypeChanged", "EditorComponentSelectionNotificationsBus", entityId,
             "m_accent", accent)

OnSelected(entityId) ==
    Notified("OnSelected", "EntitySelectionEvents", entityId, "m_selected", TRUE)

OnDeselected(entityId) ==
    Notified("OnDeselected", "EntitySelectionEvents", entityId, "m_selected", FALSE)

\* iconHidden is what the icon component answers for the entity.
OnEntityIconChanged(entityId, iconHidden) ==
    Notified("OnEntityIconChanged", "EditorEntityIconComponentNotificationBus", entityId,
             "m_iconHidden", iconHidden)

\* The destructor: five calls that disconnect, then two that connect. What a
\* handler does when it is called on the destroyed cache is not defined; no
\* call is taken after the destructor.
Destroy ==
    /\ cacheCall.kind # "~EditorVisibleEntityDataCache"
    /\ connectedBuses' =
           (connectedBuses \ {"ToolsApplicationNotificationBus",
                               "EditorEntityIconComponentNotificationBus",
                               "EntitySelectionEvents",
                               "EditorComponentSelectionNotificationsBus",
                               "TransformNotificationBus"})
               \cup {"EditorEntityLockComponentNotificationBus",
                     "EditorEntityVisibilityNotificationBus"}
    /\ cacheCall' = [kind |-> "~EditorVisibleEntityDataCache"]
    /\ UNCHANGED <<loaderVars, m_visibleEntityIds, m_prevVisibleEntityIds, m_visibleEntityDatas,
                   cacheCalls>>

CacheInit ==
    /\ LoaderIdle
    /\ result = InvalidTemplateId
    /\ request = [kind |-> "none", path |-> <<>>, fault |-> "none", content |-> UnparsableContent]

CacheNext ==
    \/ \E entityIds \in EntityIdLists : \E info \in EntityInfos : AddEntityIds(entityIds, info)
    \/ \E entityIds \in EntityIdLists : \E info \in EntityInfos :
           CalculateVisibleEntityDatas(entityIds, info)
    \/ \E info \in EntityInfos : AfterUndoRedo(info)
    \/ \E entityId \in EntityIds : \E visibility \in BOOLEAN :
           OnEntityVisibilityChanged(entityId, visibility)
    \/ \E entityId \in EntityIds : \E locked \in BOOLEAN : OnEntityLockChanged(entityId, locked)
    \/ \E entityId \in EntityIds : \E world \in {"Identity", "Moved"} : OnTransformChanged(entityId, world)
    \/ \E entityId \in EntityIds : \E accent \in {"None", "Hover"} : OnAccentTypeChanged(entityId, accent)
    \/ \E entityId \in EntityIds : OnSelected(entityId)
    \/ \E entityId \in EntityIds : OnDeselected(entityId)
    \/ \E entityId \in EntityIds : \E iconHidden \in BOOLEAN :
           OnEntityIconChanged(entityId, iconHidden)
    \/ Destroy

CacheSpec == CacheInit /\ [][CacheNext]_vars

CachedEntityIds == {m_visibleEntityDatas[i].m_entityId : i \in 1..Len(m_visibleEntityDatas)}

\* C37: the cached entries are in ascending order of entity id with no id
\* twice, so that the index found for an id is the index of its entry when the
\* id is cached, and none is found when it is not.
C37_CacheSortedAndUnique ==
    /\ \A i \in 1..Len(m_visibleEntityDatas) : \A j \in 1..Len(m_visibleEntityDatas) :
           i < j => m_visibleEntityDatas[i].m_entityId < m_visibleEntityDatas[j].m_entityId
    /\ \A entityId \in EntityIds :
           LET entityIndex == GetVisibleEntityIndexFromId(m_visibleEntityDatas, entityId)
           IN  IF entityId \in CachedEntityIds
               THEN /\ entityIndex \in 1..Len(m_visibleEntityDatas)
                    /\ m_visibleEntityDatas[entityIndex].m_entityId = entityId
               ELSE entityIndex = NoIndex

\* A step that is a call of kind.
CacheCallStep(kind) == cacheCalls' = cacheCalls + 1 /\ cacheCall'.kind = kind

\* C38: after a call of CalculateVisibleEntityDatas the cached ids are the
\* ids reported as visible for the call; an entry of an id that was cached
\* before the call is an entry the cache held before it, and an entry of a
\* newly visible id is made of what the editor answers during the call.
C38_CalculateTracksVisible ==
    [][CacheCallStep("CalculateVisibleEntityDatas") =>
          LET reported == {cacheCall'.entityIds[i] : i \in 1..Len(cacheCall'.entityIds)}
          IN  /\ {m_visibleEntityDatas'[i].m_entityId : i \in 1..Len(m_visibleEntityDatas')}
                     = reported
              /\ \A i \in 1..Len(m_visibleEntityDatas') :
                     LET entityData == m_visibleEntityDatas'[i]
                     IN  IF entityData.m_entityId \in CachedEntityIds
                         THEN \E j \in 1..Len(m_visibleEntityDatas) :
                                  m_visibleEntityDatas[j] = entityData
                         ELSE entityData = EntityDataFromEntityId(entityData.m_entityId,
                                                                 cacheCall'.info)]_vars

\* The handlers, with the field of an entry each of them is about.
HandlerFields ==
    [OnEntityVisibilityChanged |-> "m_visible", OnEntityLockChanged |-> "m_locked",
     OnTransformChanged |-> "m_worldFromLocal", OnAccentTypeChanged |-> "m_accent",
     OnSelected |-> "m_selected", OnDeselected |-> "m_selected",
     OnEntityIconChanged |-> "m_iconHidden"]

\* Do the entries before and after differ in nothing, or in field only?
SameButField(before, after, field) ==
    \A other \in DOMAIN before : other # field => after[other] = before[other]

\* C39: a notification handler leaves the ids, the previous ids and the buses
\* as they are and keeps the number and the order of the cached entries; the
\* entries of other entities are unchanged; of the notifying entity one entry
\* has the handler's field set to the notified value, with its other fields
\* unchanged; and when the notifying entity is not cached, no entry changes.
C39_HandlerChangesOneField ==
    [][\A kind \in DOMAIN HandlerFields :
          CacheCallStep(kind) =>
              LET entityId == cacheCall'.entityId
                  field == HandlerFields[kind]
                  changed == {i \in 1..Len(m_visibleEntityDatas) :
                                 m_visibleEntityDatas'[i] # m_visibleEntityDatas[i]}
              IN  /\ UNCHANGED <<m_visibleEntityIds, m_prevVisibleEntityIds, connectedBuses>>
                  /\ Len(m_visibleEntityDatas') = Len(m_visibleEntityDatas)
                  /\ Cardinality(changed) <= 1
                  /\ \A i \in changed :
                         /\ m_visibleEntityDatas[i].m_entityId = entityId
                         /\ SameButField(m_visibleEntityDatas[i], m_visibleEntityDatas'[i], field)
                  /\ entityId \in CachedEntityIds =>
                         \E i \in 1..Len(m_visibleEntityDatas') :
                             /\ m_visibleEntityDatas'[i].m_entityId = entityId
                             /\ m_visibleEntityDatas'[i][field] = cacheCall'.value
                  /\ entityId \notin CachedEntityIds => changed = {}]_vars

\* Entity 2 was reported locked to a cache that holds entities 1 and 2: its
\* entry is locked and is otherwise what it was, and the entry of entity 1 is
\* not locked.
C39_Witness ==
    /\ cacheCall.kind = "OnEntityLockChanged"
    /\ cacheCall.entityId = 2 /\ cacheCall.value = TRUE
    /\ Len(m_visibleEntityDatas) = 2
    /\ m_visibleEntityDatas[1].m_entityId = 1 /\ ~m_visibleEntityDatas[1].m_locked
    /\ m_visibleEntityDatas[2].m_entityId = 2 /\ m_visibleEntityDatas[2].m_locked
    /\ ~m_visibleEntityDatas[2].m_visible /\ ~m_visibleEntityDatas[2].m_selected

\* C40: once the cache is destroyed it is connected to none of the buses its
\* constructor connected it to, so that no bus can call it.
C40_DisconnectedAfterDestruction ==
    cacheCall.kind = "~EditorVisibleEntityDataCache" => connectedBuses \cap NotificationBuses = {}

====
